---- MODULE Spec2Model ----
(***************************************************************************)
(* Verification model of actorus: the tool execution policy                *)
(* (tools/executor.rs), the ReAct loops (actors/agent_actor.rs,            *)
(* actors/specialized_agent.rs, actors/agent_session.rs), the supervisor   *)
(* orchestration loop (actors/supervisor_agent.rs) and decision parsing.   *)
(*                                                                         *)
(* Each component is a state machine over its own group of variables and   *)
(* has its own specification (SpecExec, SpecReact, SpecSup, SpecParse);    *)
(* the variables of the other groups stay at their idle values.            *)
(***************************************************************************)
EXTENDS Integers, Sequences, FiniteSets, TLC

VARIABLES
    \* ---- ToolExecutor::execute (tools/executor.rs) ----
    e_pc,             \* "idle" | "loop" | "done" | "panicked"
    e_overflowChecks, \* build profile: TRUE = overflow checks on (debug), FALSE = wrapping (release)
    e_maxRetries,     \* self.config.max_retries
    e_attempt,        \* loop variable `attempt` of the next iteration
    e_lastError,      \* local `last_error`: Option of an error message
    e_result,         \* value returned by execute (NoResult until it returns)
    e_delay,          \* backoff waited before the most recent tool invocation (NoDelay for attempt 0)
    e_calls,          \* history: number of tool.execute invocations made
    e_lastKind,       \* history: kind of the most recent tool outcome ("none" before the first)
    e_retriedTerminal, \* history: the tool was invoked again after a terminal-class failure
    \* ---- think / decide_next_action: one LLM call and the parse of its reply ----
    p_pc,             \* "idle" | "call" | "done" | "panicked"
    p_site,           \* which think: "standalone" | "specialized" | "session" | "supervisor"
    p_reply,          \* what llm_client.chat returns: Err, or Ok(response text)
    p_result,         \* what think returns: NoThink, Err, or Ok(decision)
    \* ---- ReAct loops: run_react_loop, execute_task_with_context, execute_react_loop ----
    r_pc,             \* "idle" | "loop" | "done" | "panicked"
    r_variant,        \* "standalone" | "specialized" | "session"
    r_maxIterations,  \* max_iterations
    r_returnToolOutput, \* config.return_tool_output (specialized only)
    r_iteration,      \* loop variable `iteration` of the next iteration
    r_steps,          \* steps
    r_history,        \* conversation_history
    r_lastToolOutput, \* last_tool_output (specialized only)
    r_toolCalls,      \* tool_calls metadata (specialized only): success flag per call
    r_response,       \* the value returned (NoResponse until the run returns)
    r_llmCalls,       \* history: number of llm_client.chat calls
    r_toolRuns,       \* history: number of tool_executor.execute calls
    r_last,           \* history: what the most recent iteration did
    r_decision,       \* history: the decision the most recent iteration worked on
    \* ---- SupervisorAgent::orchestrate ----
    s_pc,             \* "idle" | "loop" | "done" | "panicked"
    s_maxSteps,       \* max_orchestration_steps
    s_maxSubGoals,    \* settings.agent.max_sub_goals
    s_coordinator,    \* handoff_coordinator: "none" | "no_contract" | "contract"
    s_step,           \* loop variable `step` of the next orchestration step
    s_progress,       \* task_progress
    s_allSteps,       \* all_steps
    s_agentResults,   \* agent_results
    s_context,        \* agent_results_context
    s_passedContext,  \* history: the context handed to the most recent agent run
    s_history,        \* conversation_history
    s_response,       \* the value returned (NoResponse until the run returns)
    s_llmCalls,       \* history: number of decide_next_action calls
    s_agentCalls,     \* history: number of execute_task_with_context calls
    s_last,           \* history: what the most recent step did
    s_decision,       \* history: the decision of the most recent step, if it got one
    s_agentResponse,  \* history: what the agent invoked in the most recent step returned
    \* ---- HandoffCoordinator::validate_handoff, OutputValidator::validate ----
    v_pc,             \* "idle" | "lookup" | "response" | "metadata" | "result" | "return" | "done"
    v_fn,             \* the function called: "validate_handoff" | "validate"
    v_contract,       \* the contract (and its schema) registered under the name, if any
    v_response,       \* the AgentResponse argument of validate_handoff
    v_output,         \* the output argument of validate
    v_errors,         \* the local `errors`
    v_warnings,       \* the local `warnings`
    v_schemaValidation, \* history: what validator.validate returned to validate_handoff
    v_result,         \* the ValidationResult returned, if any yet
    v_evaluated,      \* history: the checks the call went through
    \* ---- AgentSession over a ConversationStorage (its conversation_history is r_history) ----
    t_pc,             \* "idle" | "closed" | "ready" | "sending"
    t_kind,           \* the storage backend: "memory" | "filesystem"
    t_storage,        \* the storage: session id -> what is stored under it, if anything
    t_sessionId,      \* self.session_id of the live session, if there is one
    t_result,         \* what the most recent send_message returned: "none" | "Ok" | "Err"
    t_fresh,          \* history: the live session came out of new and nothing was called on it yet
    t_sends,          \* history: number of send_message calls made
    t_historyBefore,  \* history: conversation_history when the most recent send_message was called
    \* ---- AgentBuilder ----
    a_pc,             \* "idle" | "building" | "built"
    a_description,    \* self.description
    a_systemPrompt,   \* self.system_prompt
    a_tools,          \* self.tools.len()
    a_responseSchema, \* self.response_schema
    a_returnToolOutput, \* self.return_tool_output
    a_config,         \* the tuple build returned, if it was called
    \* ---- batch::process_prompts / process_with_context ----
    q_pc,             \* "idle" | "running" | "returned"
    q_fn,             \* "process_prompts" | "process_with_context"
    q_prompts,        \* prompts.len(): the prompts are 1..q_prompts in input order
    q_concurrency,    \* the concurrency argument
    q_next,           \* the next prompt stream::iter will yield
    q_inFlight,       \* the chat futures buffer_unordered holds: started, not finished
    q_results,        \* what collect has gathered so far, in completion order
    q_peak,           \* history: the largest number of requests that were in flight at once
    \* ---- the actor system: router, health monitor, LLM / MCP / Agent actor tasks ----
    m_settings,       \* settings.system: the three intervals (in ticks) and auto_restart
    m_router,         \* the router task: alive, and the time to its next heartbeat tick
    m_tasks,          \* per actor type, the actor tasks spawned and not yet ended, oldest first
    m_monitor,        \* the health monitor: alive, its heartbeats map (as ages), its recv timeout
    m_inbox,          \* the channel into the health monitor (supervisor_sender)
    m_routerInbox,    \* the channel from the health monitor into the router (router_tx)
    m_requests,       \* history: number of requests handed to actors
    m_resetSent       \* history: per type, a Reset went out since the type's task last stopped

execVars == <<e_pc, e_overflowChecks, e_maxRetries, e_attempt, e_lastError,
              e_result, e_delay, e_calls, e_lastKind, e_retriedTerminal>>

parseVars == <<p_pc, p_site, p_reply, p_result>>

reactVars == <<r_pc, r_variant, r_maxIterations, r_returnToolOutput, r_iteration,
               r_steps, r_history, r_lastToolOutput, r_toolCalls, r_response,
               r_llmCalls, r_toolRuns, r_last, r_decision>>

supVars == <<s_pc, s_maxSteps, s_maxSubGoals, s_coordinator, s_step, s_progress,
             s_allSteps, s_agentResults, s_context, s_passedContext, s_history,
             s_response, s_llmCalls, s_agentCalls, s_last, s_decision, s_agentResponse>>

validateVars == <<v_pc, v_fn, v_contract, v_response, v_output, v_errors, v_warnings,
                  v_schemaValidation, v_result, v_evaluated>>

sessionVars == <<t_pc, t_kind, t_storage, t_sessionId, t_result, t_fresh, t_sends,
                 t_historyBefore>>

builderVars == <<a_pc, a_description, a_systemPrompt, a_tools, a_responseSchema,
                 a_returnToolOutput, a_config>>

batchVars == <<q_pc, q_fn, q_prompts, q_concurrency, q_next, q_inFlight, q_results, q_peak>>

actorVars == <<m_settings, m_router, m_tasks, m_monitor, m_inbox, m_routerInbox, m_requests,
               m_resetSent>>

apiVars == <<sessionVars, builderVars, batchVars, actorVars>>

vars == <<execVars, parseVars, reactVars, supVars, validateVars, apiVars>>

\* Option<String>: None is the empty sequence, Some(m) the one-element sequence
NoneStr == <<>>
Some(m) == <<m>>
\* Option<u64> of the backoff waited
NoDelay == <<>>

(***************************************************************************)
(* Bounds                                                                  *)
(***************************************************************************)
MaxRetriesBound == 66

(***************************************************************************)
(* u64 arithmetic of calculate_backoff.  A u64 is four 16-bit limbs, least *)
(* significant first, so that every intermediate product stays small.      *)
(***************************************************************************)
LimbBase == 2^16

U64One == <<1, 0, 0, 0>>

\* x * m for a small m: the wrapped 64-bit product and whether it overflowed.
U64MulSmall(x, m) ==
    LET t1 == x[1] * m
        t2 == x[2] * m + (t1 \div LimbBase)
        t3 == x[3] * m + (t2 \div LimbBase)
        t4 == x[4] * m + (t3 \div LimbBase)
    IN  [val |-> <<t1 % LimbBase, t2 % LimbBase, t3 % LimbBase, t4 % LimbBase>>,
         ovf |-> (t4 \div LimbBase) > 0]

\* The powers 2^0 .. 2^n as u64 values with their overflow flags.
RECURSIVE U64Pow2Table(_)
U64Pow2Table(n) ==
    IF n = 0 THEN <<[val |-> U64One, ovf |-> FALSE]>>
    ELSE LET t == U64Pow2Table(n - 1)
             p == t[n]
             d == U64MulSmall(p.val, 2)
         IN  Append(t, [val |-> d.val, ovf |-> p.ovf \/ d.ovf])

Pow2Values == U64Pow2Table(MaxRetriesBound + 1)

\* 2_u64.pow(exp).  u64::pow multiplies by repeated squaring and returns
\* before squaring past the result, so for base 2 some multiplication
\* overflows exactly when 2^exp does not fit; the wrapped value is 2^exp mod 2^64.
U64Pow2(exp) == Pow2Values[exp + 1]

\* delay.min(max_delay) for a max_delay below LimbBase
U64MinSmall(x, m) ==
    IF x[2] = 0 /\ x[3] = 0 /\ x[4] = 0 /\ x[1] < m THEN x[1] ELSE m

base_delay == 100
max_delay == 5000

\* ToolExecutor::calculate_backoff.  With overflow checks on, an overflowing
\* pow or multiplication panics; without them the value wraps.
calculate_backoff(attempt, overflowChecks) ==
    LET p == U64Pow2(attempt)
        delay == U64MulSmall(p.val, base_delay)
    IN  [panic |-> overflowChecks /\ (p.ovf \/ delay.ovf),
         ms |-> U64MinSmall(delay.val, max_delay)]

(***************************************************************************)
(* Error messages.  should_retry only inspects which of its keywords occur *)
(* in the lower-cased message, so a message is the set of keywords it      *)
(* contains (the empty set: a message such as "Temporary failure").        *)
(***************************************************************************)
TerminalWords == {"validation", "not allowed", "permission", "empty"}
RetryWords == {"timeout", "connection", "network"}

ErrorMessages ==
    {{}} \cup {{w} : w \in TerminalWords \cup RetryWords}
         \cup {{"timeout", "permission"}}

Contains(msg, word) == word \in msg

\* ToolExecutor::should_retry on result.error
should_retry(error) ==
    IF error # NoneStr
    THEN LET error_lower == error[1]
         IN  IF Contains(error_lower, "validation") \/ Contains(error_lower, "not allowed")
                \/ Contains(error_lower, "permission") \/ Contains(error_lower, "empty")
             THEN FALSE
             ELSE IF Contains(error_lower, "timeout") \/ Contains(error_lower, "connection")
                     \/ Contains(error_lower, "network")
                  THEN TRUE
                  ELSE TRUE
    ELSE TRUE

\* What one tool.execute(args) call can produce: Ok(ToolResult) with
\* success, Ok(ToolResult) with success = false and an optional error, or Err(e).
ToolOutcomes ==
    {[kind |-> "ok_success", error |-> NoneStr]}
    \cup {[kind |-> "ok_failure", error |-> e] :
              e \in {Some(m) : m \in ErrorMessages} \cup {NoneStr}}
    \cup {[kind |-> "err", error |-> Some(m)] : m \in ErrorMessages}

\* ToolResult values.  `returned` is FALSE only for NoResult; `failedAfter`
\* marks the message "Tool '{}' failed after {attempts} attempts. Last error:
\* {error}", where a last_error of None is rendered as "Unknown error".
NoResult ==
    [returned |-> FALSE, success |-> FALSE, failedAfter |-> FALSE, attempts |-> 0,
     error |-> NoneStr]
ToolSuccess ==
    [returned |-> TRUE, success |-> TRUE, failedAfter |-> FALSE, attempts |-> 0,
     error |-> NoneStr]
ToolFailure(error) ==
    [returned |-> TRUE, success |-> FALSE, failedAfter |-> FALSE, attempts |-> 0,
     error |-> error]
ToolExhausted(n, last) ==
    [returned |-> TRUE, success |-> FALSE, failedAfter |-> TRUE, attempts |-> n,
     error |-> last]

\* an error message of a terminal class: it holds one of the terminal keywords
IsTerminalClass(error) == error # NoneStr /\ error[1] \cap TerminalWords # {}

(***************************************************************************)
(* Decision parsing: think (agent_actor.rs, specialized_agent.rs,          *)
(* agent_session.rs) and decide_next_action (supervisor_agent.rs).         *)
(*                                                                         *)
(* A response text is a sequence of chunks: plain non-blank text without   *)
(* braces, a lone '{', a lone '}', a JSON object that does not deserialize *)
(* as a decision, or the JSON text of a decision d.  An object or decision *)
(* chunk begins with '{' and ends with '}'.                                *)
(***************************************************************************)
TextChunk == [k |-> "text"]
OpenBrace == [k |-> "{"]
CloseBrace == [k |-> "}"]
OtherObject == [k |-> "object"]
DecisionJson(d) == [k |-> "decision", d |-> d]

MaxChunks == 3

SetMin(S) == CHOOSE x \in S : \A y \in S : x <= y
SetMax(S) == CHOOSE x \in S : \A y \in S : x >= y

\* serde_json::from_str::<Decision>(text): Some(decision) or None on error
from_str(text) ==
    IF Len(text) = 1 /\ text[1].k = "decision" THEN <<text[1].d>> ELSE <<>>

\* response.find('{'): the chunk whose first byte is the first '{' (0: None)
find_open(response) ==
    LET S == {i \in 1..Len(response) : response[i].k \in {"{", "object", "decision"}}
    IN  IF S = {} THEN 0 ELSE SetMin(S)

\* response.rfind('}'): the chunk whose last byte is the last '}' (0: None)
rfind_close(response) ==
    LET S == {i \in 1..Len(response) : response[i].k \in {"}", "object", "decision"}}
    IN  IF S = {} THEN 0 ELSE SetMax(S)

\* &response[start..=end] for start = first byte of chunk i, end = last byte
\* of chunk j.  For j >= i these are the chunks i..j.  For j = i - 1 the range
\* start..end+1 is empty.  For j < i - 1 start exceeds end + 1 and the slice
\* panics ("slice index starts at .. but ends at ..").
slice_inclusive(response, i, j) ==
    IF j >= i THEN [panic |-> FALSE, text |-> SubSeq(response, i, j)]
    ELSE IF j = i - 1 THEN [panic |-> FALSE, text |-> <<>>]
    ELSE [panic |-> TRUE, text |-> <<>>]

\* the thought of a decision built from the raw response
RawThought(response) == IF response = <<>> THEN "empty" ELSE "response"

\* "If all parsing fails": the default decision of each call site
default_decision(site, response) ==
    IF site = "supervisor"
    THEN [thought |-> RawThought(response), sub_goals |-> <<>>, declares |-> FALSE,
          agent_to_invoke |-> "none", agent_task |-> "none", sub_goal_id |-> "none",
          is_final |-> FALSE, final_answer |-> "none"]
    ELSE IF site = "session"
    THEN [thought |-> RawThought(response), action |-> "none",
          is_final |-> TRUE, final_answer |-> "response"]
    ELSE [thought |-> RawThought(response), action |-> "none",
          is_final |-> FALSE, final_answer |-> "none"]

ThinkOk(tier, d) == [kind |-> "ok", tier |-> tier, d |-> <<d>>]
ThinkErr == [kind |-> "err", tier |-> 0, d |-> <<>>]
ThinkPanic == [kind |-> "panic", tier |-> 0, d |-> <<>>]
NoThink == [kind |-> "none", tier |-> 0, d |-> <<>>]

\* The body of think / decide_next_action after the LLM call returned
\* Ok(response): strict parse, then the substring between the first '{' and
\* the last '}', then the call site's default decision.
parse_decision(site, response) ==
    LET strict == from_str(response)
        start == find_open(response)
        end == rfind_close(response)
        json_str == slice_inclusive(response, start, end)
        extracted == from_str(json_str.text)
    IN  IF strict # <<>> THEN ThinkOk(1, strict[1])
        ELSE IF start # 0 /\ end # 0 /\ json_str.panic THEN ThinkPanic
        ELSE IF start # 0 /\ end # 0 /\ extracted # <<>> THEN ThinkOk(2, extracted[1])
        ELSE ThinkOk(3, default_decision(site, response))

\* think: `llm_client.chat(..).await?` then the parse
think(site, reply) ==
    IF ~reply.ok THEN ThinkErr ELSE parse_decision(site, reply.text)

LlmErr == [ok |-> FALSE, text |-> <<>>]
LlmOk(text) == [ok |-> TRUE, text |-> text]

\* sample decisions carried by the JSON chunks of the parse model
SampleDecisions(site) ==
    IF site = "supervisor"
    THEN {[thought |-> "text", sub_goals |-> <<>>, declares |-> FALSE,
           agent_to_invoke |-> "none", agent_task |-> "none", sub_goal_id |-> "none",
           is_final |-> f, final_answer |-> "none"] : f \in BOOLEAN}
    ELSE {[thought |-> "text", action |-> "none", is_final |-> f,
           final_answer |-> "none"] : f \in BOOLEAN}

Chunks(site) ==
    {TextChunk, OpenBrace, CloseBrace, OtherObject}
    \cup {DecisionJson(d) : d \in SampleDecisions(site)}

\* all response texts of at most n chunks
RECURSIVE Texts(_, _)
Texts(C, n) ==
    IF n = 0 THEN {<<>>}
    ELSE LET shorter == Texts(C, n - 1)
         IN  shorter \cup {Append(t, c) : t \in {u \in shorter : Len(u) = n - 1}, c \in C}

Sites == {"standalone", "specialized", "session", "supervisor"}

ParseIdle ==
    /\ p_pc = "idle" /\ p_site = "standalone" /\ p_reply = LlmErr /\ p_result = NoThink

(***************************************************************************)
(* ReAct loops.  Strings the code builds are kept as tags: a literal       *)
(* message by its text, a value taken from the decision or the tool by its *)
(* name.                                                                   *)
(***************************************************************************)
MaxIterations == 4

\* ToolRegistry: the tool names registered
Registry == {"read_file"}
ToolNames == Registry \cup {"no_such_tool"}

\* AgentDecision values an LLM can send as JSON
AgentDecisions ==
    [thought : {"empty", "text"}, action : {"none"} \cup ToolNames,
     is_final : BOOLEAN, final_answer : {"none", "decision.final_answer"}]

\* What tool_executor.execute returns to the loops.  The executor is built with
\* ToolConfig::default() (max_retries = 3) and returns Ok on every path, so
\* the loops' Err arms are never taken.
ToolRunOk(output) == [kind |-> "ok", success |-> TRUE, output |-> output]
ToolRunFailed == [kind |-> "ok", success |-> FALSE, output |-> ""]
ToolRunErr == [kind |-> "err", success |-> FALSE, output |-> ""]
ToolRuns == {ToolRunOk("out_a"), ToolRunOk("out_b"), ToolRunFailed}

\* Responses of the LLM offered to the loops: every decision as JSON, a
\* decision inside prose, prose, the empty text, and braces in reverse order.
ReactReplies ==
    {LlmErr}
    \cup {LlmOk(<<DecisionJson(d)>>) : d \in AgentDecisions}
    \cup {LlmOk(<<TextChunk>>), LlmOk(<<>>),
          LlmOk(<<TextChunk, DecisionJson([thought |-> "text", action |-> "none",
                                            is_final |-> TRUE,
                                            final_answer |-> "decision.final_answer"])>>),
          LlmOk(<<CloseBrace, TextChunk, OpenBrace>>)}

\* ChatMessage {role, content}; an observation message carries the observation
\* and, in the specialized agent, the remaining-iterations hint
Msg(role, content) ==
    [role |-> role, content |-> content, observation |-> "", hint |-> <<>>, warning |-> FALSE]
ObservationMsg(observation, hint, warning) ==
    [role |-> "user", content |-> "Observation", observation |-> observation,
     hint |-> hint, warning |-> warning]

\* AgentStep {iteration, thought, action, observation}
AgentStep(iteration, thought, action, observation) ==
    [iteration |-> iteration, thought |-> thought, action |-> action,
     observation |-> observation]
\* SessionStep {thought, action, observation}
SessionStep(thought, action, observation) ==
    [thought |-> thought, action |-> action, observation |-> observation]

\* steps.iter().any(|s| s.observation.is_some())
AnyObservation(steps) == \E i \in 1..Len(steps) : steps[i].observation # <<>>
\* steps.iter().filter(|s| s.observation.is_some()).count()
RECURSIVE CountObservations(_)
CountObservations(steps) ==
    IF steps = <<>> THEN 0
    ELSE (IF Head(steps).observation # <<>> THEN 1 ELSE 0) + CountObservations(Tail(steps))
\* steps.last().and_then(|s| s.observation.as_ref()).cloned().unwrap_or("Task completed")
LastObservationOr(steps, default) ==
    IF steps # <<>> /\ steps[Len(steps)].observation # <<>>
    THEN steps[Len(steps)].observation[1]
    ELSE default

\* (count as f32 / max_iterations as f32).min(0.9), kept as a fraction
Progress(steps, max_iterations) ==
    IF steps = <<>> THEN [num |-> 0, den |-> 1]
    ELSE LET n == CountObservations(steps)
         IN  IF 10 * n < 9 * max_iterations
             THEN [num |-> n, den |-> max_iterations]
             ELSE [num |-> 9, den |-> 10]

\* AgentResponse and Result<SessionResponse>
NoProgress == <<>>
NoResponse ==
    [kind |-> "none", result |-> "", steps |-> <<>>, completion_status |-> "None",
     progress |-> NoProgress, completed |-> FALSE]
Success(result, steps, completion_status) ==
    [kind |-> "Success", result |-> result, steps |-> steps,
     completion_status |-> completion_status, progress |-> NoProgress, completed |-> TRUE]

\* a Failure whose completion status is not recoverable
FailureNotRecoverable(error, steps) ==
    [kind |-> "Failure", result |-> error, steps |-> steps,
     completion_status |-> "Failed{recoverable=false}", progress |-> NoProgress,
     completed |-> FALSE]
\* AgentResponse::Failure as the loops build it on an LLM error
Failure(error, steps) ==
    [kind |-> "Failure", result |-> error, steps |-> steps,
     completion_status |-> "Failed{recoverable=true}", progress |-> NoProgress,
     completed |-> FALSE]
Timeout(partial_result, steps, progress) ==
    [kind |-> "Timeout", result |-> partial_result, steps |-> steps,
     completion_status |-> "Partial", progress |-> <<progress>>, completed |-> FALSE]
SessionOk(message, steps, completed) ==
    [kind |-> "SessionResponse", result |-> message, steps |-> steps,
     completion_status |-> "None", progress |-> NoProgress, completed |-> completed]
SessionErr ==
    [kind |-> "Err", result |-> "", steps |-> <<>>, completion_status |-> "None",
     progress |-> NoProgress, completed |-> FALSE]

\* a loop over 0..=max_iterations, one iteration too many
in_range_inclusive(iteration, max_iterations) == iteration <= max_iterations
\* `for iteration in 0..max_iterations`: the loop body runs for this iteration
in_range(iteration, max_iterations) == iteration < max_iterations

\* The loop state of one run
ReactState(pc, iteration, steps, history, last_tool_output, tool_calls, response, last) ==
    [pc |-> pc, iteration |-> iteration, steps |-> steps, history |-> history,
     last_tool_output |-> last_tool_output, tool_calls |-> tool_calls,
     response |-> response, last |-> last]

\* the urgency message of the specialized agent's observation prompt
UrgencyHint(variant, max_iterations, iteration) ==
    IF variant = "specialized" THEN <<max_iterations - iteration - 1>> ELSE <<>>
UrgencyWarning(variant, max_iterations, iteration) ==
    variant = "specialized" /\ max_iterations - iteration - 1 <= 2

\* a final answer that is always the LLM's
llm_final_answer(variant, return_tool_output, last_tool_output, d) == IF d.final_answer # "none" THEN d.final_answer ELSE "Task completed without explicit answer"
\* the final answer of an is_final decision
final_answer_of(variant, return_tool_output, last_tool_output, d) ==
    IF variant = "specialized" /\ return_tool_output
    THEN IF last_tool_output # <<>> THEN last_tool_output[1]
         ELSE IF d.final_answer # "none" THEN d.final_answer
         ELSE "Task completed without tool output"
    ELSE IF d.final_answer # "none" THEN d.final_answer
    ELSE "Task completed without explicit answer"

\* an implicit completion that always answers with the thought
thought_as_result(variant, return_tool_output, last_tool_output, d, steps) == "decision.thought"
\* the result of an implicit completion (no action, earlier observations)
implicit_result(variant, return_tool_output, last_tool_output, d, steps) ==
    IF variant = "specialized" /\ return_tool_output
    THEN IF last_tool_output # <<>> THEN last_tool_output[1]
         ELSE LastObservationOr(steps, "Task completed")
    ELSE IF d.thought # "empty" THEN "decision.thought"
    ELSE LastObservationOr(steps, "Task completed")

\* One iteration of the loop of run_react_loop (variant "standalone") and of
\* SpecializedAgent::execute_task_with_context (variant "specialized"):
\* st is the state before it, reply the LLM's reply, run the executor's return.
react_iteration(variant, max_iterations, return_tool_output, st, reply, run) ==
    LET decided == think(variant, reply)
        d == decided.d[1]
        iteration == st.iteration
        tool_known == d.action \in Registry
        observation == IF run.success THEN run.output ELSE "Tool failed"
        answer == final_answer_of(variant, return_tool_output, st.last_tool_output, d)
        implicit == implicit_result(variant, return_tool_output, st.last_tool_output,
                                    d, st.steps)
        complete(confidence) == "Complete{confidence=" \o confidence \o "}"
    IN  IF decided.kind = "err"
        THEN [st EXCEPT !.pc = "done", !.response = Failure("Failed to reason", st.steps),
                        !.last = "llm_error"]
        ELSE IF decided.kind = "panic"
        THEN [st EXCEPT !.pc = "panicked", !.last = "panic"]
        ELSE IF d.is_final
        THEN LET steps == Append(st.steps,
                                 AgentStep(iteration, "decision.thought", "none", <<answer>>))
             IN  [st EXCEPT !.pc = "done", !.steps = steps,
                            !.response = Success(answer, steps, complete("1.0")),
                            !.last = "final"]
        ELSE IF d.action # "none" /\ ~tool_known
        THEN [st EXCEPT !.iteration = iteration + 1,
                        !.history = Append(st.history, Msg("assistant", "Error: Tool not found")),
                        !.steps = Append(st.steps,
                                         AgentStep(iteration, "decision.thought", d.action,
                                                   <<"Tool not found">>)),
                        !.last = "unknown_tool"]
        ELSE IF d.action # "none" /\ run.kind = "err"
        THEN [st EXCEPT !.iteration = iteration + 1,
                        !.tool_calls = IF variant = "specialized"
                                       THEN Append(st.tool_calls, FALSE) ELSE st.tool_calls,
                        !.history = Append(st.history, Msg("assistant", "Tool execution failed")),
                        !.steps = Append(st.steps,
                                         AgentStep(iteration, "decision.thought", d.action,
                                                   <<"Tool execution failed">>)),
                        !.last = "tool_error"]
        ELSE IF d.action # "none"
        THEN [st EXCEPT !.iteration = iteration + 1,
                        !.tool_calls = IF variant = "specialized"
                                       THEN Append(st.tool_calls, run.success)
                                       ELSE st.tool_calls,
                        !.last_tool_output = IF variant = "specialized" /\ run.success
                                             THEN <<run.output>> ELSE st.last_tool_output,
                        !.history = st.history \o
                            <<Msg("assistant", "decision_json"),
                              ObservationMsg(observation,
                                             UrgencyHint(variant, max_iterations, iteration),
                                             UrgencyWarning(variant, max_iterations, iteration))>>,
                        !.steps = Append(st.steps,
                                         AgentStep(iteration, "decision.thought", d.action,
                                                   <<observation>>)),
                        !.last = IF run.success THEN "tool_ok" ELSE "tool_failed"]
        ELSE IF st.steps # <<>> /\ AnyObservation(st.steps)
        THEN LET steps == Append(st.steps,
                                 AgentStep(iteration,
                                           "Task completed based on previous observations",
                                           "none", <<implicit>>))
             IN  [st EXCEPT !.pc = "done", !.steps = steps,
                            !.response = Success(implicit, steps, complete("0.8")),
                            !.last = "implicit_final"]
        ELSE [st EXCEPT !.iteration = iteration + 1,
                        !.history = Append(st.history,
                                           Msg("assistant",
                                               "No action specified and no prior progress")),
                        !.steps = Append(st.steps,
                                         AgentStep(iteration, "decision.thought", "none",
                                                   <<"No action specified and no prior progress">>)),
                        !.last = "no_progress"]

\* "Max iterations reached" of run_react_loop and execute_task_with_context
react_timeout(max_iterations, st) ==
    [st EXCEPT !.pc = "done",
               !.response = Timeout("Max iterations reached without completing task", st.steps,
                                    Progress(st.steps, max_iterations)),
               !.last = "timeout"]

\* One iteration of the loop of AgentSession::execute_react_loop
session_iteration(st, reply, run) ==
    LET decided == think("session", reply)
        d == decided.d[1]
        tool_known == d.action \in Registry
        observation == IF run.success THEN run.output ELSE "Tool failed"
        final_answer == IF d.final_answer # "none" THEN d.final_answer ELSE "Task completed"
    IN  IF decided.kind = "err"
        THEN [st EXCEPT !.pc = "done", !.response = SessionErr, !.last = "llm_error"]
        ELSE IF decided.kind = "panic"
        THEN [st EXCEPT !.pc = "panicked", !.last = "panic"]
        ELSE IF d.is_final
        THEN LET steps == Append(st.steps,
                                 SessionStep("decision.thought", "none", <<final_answer>>))
             IN  [st EXCEPT !.pc = "done", !.steps = steps,
                            !.response = SessionOk(final_answer, steps, TRUE),
                            !.last = "final"]
        ELSE IF d.action # "none" /\ ~tool_known
        THEN LET steps == Append(st.steps,
                                 SessionStep("decision.thought", d.action, <<"Tool not found">>))
             IN  [st EXCEPT !.pc = "done", !.steps = steps,
                            !.history = Append(st.history,
                                               Msg("assistant", "Error: Tool not found")),
                            !.response = SessionOk("Tool not found", steps, FALSE),
                            !.last = "unknown_tool"]
        ELSE IF d.action # "none" /\ run.kind = "err"
        THEN [st EXCEPT !.pc = "done", !.response = SessionErr, !.last = "tool_error"]
        ELSE IF d.action # "none"
        THEN [st EXCEPT !.iteration = st.iteration + 1,
                        !.history = st.history \o
                            <<Msg("assistant", "decision_json"),
                              ObservationMsg(observation, <<>>, FALSE)>>,
                        !.steps = Append(st.steps,
                                         SessionStep("decision.thought", d.action,
                                                     <<observation>>)),
                        !.last = IF run.success THEN "tool_ok" ELSE "tool_failed"]
        ELSE IF d.thought # "empty"
        THEN LET steps == Append(st.steps,
                                 SessionStep("decision.thought", "none", <<"decision.thought">>))
             IN  [st EXCEPT !.pc = "done", !.steps = steps,
                            !.history = Append(st.history, Msg("assistant", "decision.thought")),
                            !.response = SessionOk("decision.thought", steps, TRUE),
                            !.last = "implicit_final"]
        ELSE LET steps == Append(st.steps,
                                 SessionStep("decision.thought", "none",
                                             <<"No action specified and no response provided">>))
             IN  [st EXCEPT !.pc = "done", !.steps = steps,
                            !.response = SessionOk("No action specified and no response provided",
                                                   steps, FALSE),
                            !.last = "no_response"]

\* "Max iterations reached" of execute_react_loop
session_timeout(st) ==
    [st EXCEPT !.pc = "done",
               !.response = SessionOk("Max iterations reached without completing task",
                                      st.steps, FALSE),
               !.last = "timeout"]

(***************************************************************************)
(* SupervisorAgent::orchestrate                                            *)
(***************************************************************************)
MaxOrchestrationSteps == 2
MaxSubGoals == 2

\* the agents registered with the supervisor (self.agents)
Agents == {"researcher"}
AgentNames == Agents \cup {"ghost"}

\* an id numbered one too high
GoalIdNext(n) == "goal_" \o ToString(n + 1)
\* the sub-goal id "goal_<n>": the ids the prompt asks for, and the fallback
\* id format!("goal_{}", step)
GoalId(n) == "goal_" \o ToString(n)

\* the batch an LLM declares: one sub-goal more than max_sub_goals allows
DeclaredBatch == [i \in 1..(MaxSubGoals + 1) |-> GoalId(i)]

\* Option<Vec<SubGoalDeclaration>>: null, or the ids declared, in order
NoSubGoals == <<>>
SomeSubGoals(ids) == <<ids>>

\* SupervisorDecision values an LLM can send as JSON; `declares` is
\* sub_goals.is_some()
SupervisorDecision(sub_goals, agent_to_invoke, agent_task, sub_goal_id, is_final, final_answer) ==
    [thought |-> "text", sub_goals |-> IF sub_goals = NoSubGoals THEN <<>> ELSE sub_goals[1],
     declares |-> sub_goals # NoSubGoals, agent_to_invoke |-> agent_to_invoke, agent_task |-> agent_task,
     sub_goal_id |-> sub_goal_id, is_final |-> is_final, final_answer |-> final_answer]

\* what the sub_goals field of a decision holds
Declarations == {NoSubGoals, SomeSubGoals(DeclaredBatch)}

SupervisorDecisions ==
    {SupervisorDecision(sg, "none", "none", "none", TRUE, fa) :
        sg \in Declarations, fa \in {"none", "decision.final_answer"}}
    \cup {SupervisorDecision(sg, a, "agent_task", id, FALSE, "none") :
        sg \in Declarations, a \in AgentNames, id \in {"none", GoalId(1), GoalId(2)}}
    \cup {SupervisorDecision(sg, a, "none", "none", FALSE, "none") :
        sg \in Declarations, a \in {"none", "researcher"}}

\* Replies of the LLM offered to orchestrate
SupervisorReplies ==
    {LlmErr}
    \cup {LlmOk(<<DecisionJson(d)>>) : d \in SupervisorDecisions}
    \cup {LlmOk(<<TextChunk>>), LlmOk(<<CloseBrace, TextChunk, OpenBrace>>)}

\* What execute_task_with_context returns to the supervisor (its steps are
\* not read by orchestrate)
AgentOutcomes ==
    {Success("agent_result", <<>>, "Complete{confidence=1.0}"),
     Failure("Failed to reason", <<>>),
     Timeout("Max iterations reached without completing task", <<>>, [num |-> 0, den |-> 1])}

\* SubGoal {id, description, status, assigned_agent, result}; `declared` is
\* history: the sub-goal came from a decision's sub_goals
SubGoal(id, declared) ==
    [id |-> id, status |-> "Pending", assigned_agent |-> "none", result |-> <<>>,
     declared |-> declared]

\* TaskProgress::new
NewTaskProgress == [sub_goals |-> <<>>, completed_count |-> 0, failed_count |-> 0]

\* TaskProgress::add_sub_goal
add_sub_goal(tp, id, declared) ==
    [tp EXCEPT !.sub_goals = Append(tp.sub_goals, SubGoal(id, declared))]

\* for declaration in goals_to_add { add_sub_goal(..) }
RECURSIVE add_sub_goals(_, _)
add_sub_goals(tp, ids) ==
    IF ids = <<>> THEN tp
    ELSE add_sub_goals(add_sub_goal(tp, Head(ids), TRUE), Tail(ids))

\* a declaration registered whole
take_all(sub_goal_declarations, max_allowed) == sub_goal_declarations
\* sub_goal_declarations.into_iter().take(max_allowed)
take(sub_goal_declarations, max_allowed) ==
    SubSeq(sub_goal_declarations, 1,
           IF Len(sub_goal_declarations) < max_allowed THEN Len(sub_goal_declarations)
           ELSE max_allowed)

\* sub_goals.iter_mut().find(|g| g.id == id): index of the first match, 0 if none
find_goal(tp, id) ==
    LET S == {i \in 1..Len(tp.sub_goals) : tp.sub_goals[i].id = id}
    IN  IF S = {} THEN 0 ELSE SetMin(S)

\* TaskProgress::mark_in_progress
mark_in_progress(tp, id, agent) ==
    LET i == find_goal(tp, id)
    IN  IF i = 0 THEN tp
        ELSE [tp EXCEPT !.sub_goals[i].status = "InProgress",
                        !.sub_goals[i].assigned_agent = agent]

\* TaskProgress::mark_completed
mark_completed(tp, id, result) ==
    LET i == find_goal(tp, id)
    IN  IF i = 0 THEN tp
        ELSE [tp EXCEPT !.sub_goals[i].status = "Completed",
                        !.sub_goals[i].result = <<result>>,
                        !.completed_count = @ + 1]

\* a mark_failed that counts the failure and leaves the sub-goal as it is
mark_failed_counts_only(tp, id, error) == [tp EXCEPT !.failed_count = @ + 1]
\* TaskProgress::mark_failed
mark_failed(tp, id, error) ==
    LET i == find_goal(tp, id)
    IN  IF i = 0 THEN tp
        ELSE [tp EXCEPT !.sub_goals[i].status = "Failed",
                        !.sub_goals[i].result = <<error>>,
                        !.failed_count = @ + 1]

\* TaskProgress::progress_percentage, kept as a fraction
progress_percentage(tp) ==
    IF tp.sub_goals = <<>> THEN [num |-> 0, den |-> 1]
    ELSE [num |-> tp.completed_count, den |-> Len(tp.sub_goals)]

\* a completion test that asks for more completions than sub-goals
is_complete_lenient(tp) ==
    tp.sub_goals # <<>> /\ tp.completed_count > Len(tp.sub_goals)
\* TaskProgress::is_complete
is_complete(tp) ==
    tp.sub_goals # <<>> /\ tp.completed_count = Len(tp.sub_goals)

\* agent_results_context.insert(key, value)
context_insert(context, key, value) ==
    {e \in context : e.key # key} \cup {[key |-> key, value |-> value]}

\* HandoffCoordinator::validate_handoff for the contract "<agent>_handoff":
\* no such contract, a response that is not Success, or a result that fails
\* the contract's schema, is invalid
validate_handoff(coordinator, agent_response, schema_ok) ==
    IF coordinator = "no_contract" THEN [valid |-> FALSE, error |-> "ContractNotFound"]
    ELSE IF agent_response.kind = "Failure" THEN [valid |-> FALSE, error |-> "AgentFailure"]
    ELSE IF agent_response.kind = "Timeout" THEN [valid |-> FALSE, error |-> "AgentTimeout"]
    ELSE IF ~schema_ok THEN [valid |-> FALSE, error |-> "SchemaViolation"]
    ELSE [valid |-> TRUE, error |-> ""]

\* no gate at all
handoff_never_blocked(coordinator, validation) == FALSE
\* `if let Some(coordinator) = &self.handoff_coordinator` and
\* `if !validation.valid`: the result is kept from the Success arm
handoff_blocked(coordinator, validation) == coordinator # "none" /\ ~validation.valid

\* the message that reports an agent's result to the supervisor LLM
AgentResultMsg(result_summary, remaining_after_this) ==
    [role |-> "user", content |-> "Agent completed the task", observation |-> result_summary,
     hint |-> <<remaining_after_this>>, warning |-> remaining_after_this <= 2]

\* result_summary of an agent response
result_summary_of(agent_response) ==
    IF agent_response.kind = "Success" THEN "SUCCESS (confidence): result"
    ELSE IF agent_response.kind = "Failure" THEN "FAILED (recoverable): error"
    ELSE "TIMEOUT (progress): partial_result"

\* The loop state of one orchestrate run
SupState(pc, step, progress, all_steps, agent_results, context, passed_context, history, response, last) ==
    [pc |-> pc, step |-> step, progress |-> progress, all_steps |-> all_steps,
     agent_results |-> agent_results, context |-> context,
     passed_context |-> passed_context, history |-> history, response |-> response,
     last |-> last]

\* One step of the loop of orchestrate: st is the state before it, reply the
\* LLM's reply, agent_response what the invoked agent returns, schema_ok
\* whether its result meets the handoff contract's schema.
orchestrate_step(max_orchestration_steps, max_sub_goals, coordinator, st, reply, agent_response, schema_ok) ==
    LET decided == think("supervisor", reply)
        d == decided.d[1]
        step == st.step
        declared == IF d.declares
                    THEN add_sub_goals(st.progress, take(d.sub_goals, max_sub_goals))
                    ELSE st.progress
        agent_name == d.agent_to_invoke
        sub_goal_id == IF d.sub_goal_id # "none" THEN d.sub_goal_id ELSE GoalId(step)
        registered == IF find_goal(declared, sub_goal_id) # 0 THEN declared
                      ELSE add_sub_goal(declared, sub_goal_id, FALSE)
        in_progress == mark_in_progress(registered, sub_goal_id, agent_name)
        context == IF st.context # {} THEN <<st.context>> ELSE <<>>
        validation == validate_handoff(coordinator, agent_response, schema_ok)
        action == <<agent_name, "agent_task">>
        completed == mark_completed(in_progress, sub_goal_id, agent_response.result)
        failed == mark_failed(in_progress, sub_goal_id, agent_response.result)
        result_summary == result_summary_of(agent_response)
        invoked(progress) ==
            [st EXCEPT !.step = step + 1, !.progress = progress, !.passed_context = context,
                       !.history = st.history \o
                           <<Msg("assistant", "decision_json"),
                             AgentResultMsg(result_summary,
                                            max_orchestration_steps - step - 1)>>,
                       !.all_steps = Append(st.all_steps,
                                            AgentStep(step, "decision.thought", action,
                                                      <<result_summary>>))]
    IN  IF decided.kind = "err"
        THEN [st EXCEPT !.pc = "done",
                        !.response = Failure("Supervisor decision failed", st.all_steps),
                        !.last = "llm_error"]
        ELSE IF decided.kind = "panic"
        THEN [st EXCEPT !.pc = "panicked", !.last = "panic"]
        ELSE IF ~d.is_final /\ is_complete(declared) /\ declared.sub_goals # <<>>
        THEN LET all_steps == Append(st.all_steps,
                                     AgentStep(step, "All sub-goals complete", "none",
                                               <<"All sub-goals accomplished">>))
             IN  [st EXCEPT !.pc = "done", !.progress = declared, !.all_steps = all_steps,
                            !.response = Success("All sub-goals accomplished", all_steps,
                                                 "Complete{confidence=0.95}"),
                            !.last = "auto_complete_before"]
        ELSE IF d.is_final
        THEN LET final_answer == IF d.final_answer # "none" THEN d.final_answer
                                 ELSE "Task completed without explicit answer"
                 all_steps == Append(st.all_steps,
                                     AgentStep(step, "decision.thought", "none",
                                               <<final_answer>>))
             IN  [st EXCEPT !.pc = "done", !.progress = declared, !.all_steps = all_steps,
                            !.response = Success(final_answer, all_steps,
                                                 "Complete{confidence=1.0}"),
                            !.last = "final"]
        ELSE IF agent_name = "none" \/ d.agent_task = "none"
        THEN [st EXCEPT !.step = step + 1, !.progress = declared,
                        !.history = Append(st.history,
                                           Msg("user", "Supervisor must either invoke an agent or mark task as final")),
                        !.all_steps = Append(st.all_steps,
                                             AgentStep(step, "decision.thought", "none",
                                                       <<"Supervisor must either invoke an agent or mark task as final">>)),
                        !.last = "no_agent"]
        ELSE IF agent_name \notin Agents
        THEN [st EXCEPT !.step = step + 1, !.progress = in_progress,
                        !.history = Append(st.history, Msg("user", "Error: Agent not found")),
                        !.all_steps = Append(st.all_steps,
                                             AgentStep(step, "decision.thought", agent_name,
                                                       <<"Agent not found">>)),
                        !.last = "unknown_agent"]
        ELSE IF handoff_blocked(coordinator, validation)
        THEN [st EXCEPT !.step = step + 1, !.passed_context = context,
                        !.progress = mark_failed(in_progress, sub_goal_id,
                                                 "Validation failed: " \o validation.error),
                        !.history = Append(st.history,
                                           Msg("user", "Agent completed but validation FAILED")),
                        !.all_steps = Append(st.all_steps,
                                             AgentStep(step, "Agent output validation failed",
                                                       action,
                                                       <<"VALIDATION FAILED: " \o validation.error>>)),
                        !.last = "validation_failed"]
        ELSE IF agent_response.kind = "Success" /\ is_complete(completed)
                /\ completed.sub_goals # <<>>
        THEN LET all_steps == Append(st.all_steps,
                                     AgentStep(step, "Completed sub-goal", action,
                                               <<agent_response.result>>))
             IN  [st EXCEPT !.pc = "done", !.progress = completed,
                            !.passed_context = context,
                            !.agent_results = Append(st.agent_results,
                                                     <<agent_name, agent_response.result>>),
                            !.context = context_insert(st.context, agent_name \o "_output",
                                                       agent_response.result),
                            !.all_steps = all_steps,
                            !.response = Success("All sub-goals accomplished", all_steps,
                                                 "Complete{confidence=0.98}"),
                            !.last = "auto_complete"]
        ELSE IF agent_response.kind = "Success"
        THEN [invoked(completed) EXCEPT
                        !.agent_results = Append(st.agent_results,
                                                 <<agent_name, agent_response.result>>),
                        !.context = context_insert(st.context, agent_name \o "_output",
                                                   agent_response.result),
                        !.last = "agent_success"]
        ELSE IF agent_response.kind = "Failure"
        THEN [invoked(failed) EXCEPT !.last = "agent_failure"]
        ELSE [invoked(failed) EXCEPT !.last = "agent_timeout"]

\* "Max orchestration steps reached"
orchestrate_timeout(st) ==
    [st EXCEPT !.pc = "done",
               !.response = Timeout("Supervisor reached max orchestration steps", st.all_steps,
                                    progress_percentage(st.progress)),
               !.last = "timeout"]

(***************************************************************************)
(* OutputValidator::validate and HandoffCoordinator::validate_handoff      *)
(***************************************************************************)
\* the fields the schemas and the outputs speak of
Fields == {"data", "row_count"}

\* serde_json values found under a field: none, a string of some length, a
\* number of some value
\* (a number is size, or 2^53 + size when `wide`)
AbsentValue == [present |-> FALSE, type |-> "null", size |-> 0, wide |-> FALSE]
StringValue(len) == [present |-> TRUE, type |-> "string", size |-> len, wide |-> FALSE]
NumberValue(n) == [present |-> TRUE, type |-> "number", size |-> n, wide |-> FALSE]
WideNumberValue(n) == [present |-> TRUE, type |-> "number", size |-> n, wide |-> TRUE]

\* a decimal number as written in JSON or in a constraint: n, or 2^53 + n
\* when `wide` (n far below 2^53)
Number(wide, n) == [wide |-> wide, n |-> n]

\* Value::as_f64 and str::parse::<f64>: an integer up to 2^53 is kept; from
\* 2^53 to 2^54 the f64 values are the even integers, and an odd one goes to
\* the neighbour with the even mantissa (the multiple of 4)
as_f64(number) ==
    IF ~number.wide \/ number.n % 2 = 0 THEN number
    ELSE Number(TRUE, IF (number.n - 1) % 4 = 0 THEN number.n - 1 ELSE number.n + 1)

\* `<` on two f64 values
f64_lt(a, b) == (~a.wide /\ b.wide) \/ (a.wide = b.wide /\ a.n < b.n)

\* the result string of an agent: text that is not JSON, or a JSON value
\* with what it holds under each field (a JSON value that is no object holds
\* nothing under any field)
NotJson == [json |-> FALSE, fields |-> [f \in Fields |-> AbsentValue]]
JsonValue(data, row_count) ==
    [json |-> TRUE,
     fields |-> [f \in Fields |-> IF f = "data" THEN data ELSE row_count]]

JsonValues ==
    {JsonValue(data, row_count) :
        data \in {AbsentValue, StringValue(0), StringValue(2), NumberValue(5)},
        row_count \in {AbsentValue, NumberValue(0), NumberValue(1), NumberValue(3),
                       NumberValue(5), NumberValue(7), WideNumberValue(0),
                       WideNumberValue(1)}}

\* ValidationError {field, error_type, ..}
ValidationError(field, error_type) == [field |-> field, error_type |-> error_type]

\* ValidationRule {field, rule_type, constraint}: the constraint parsed into
\* its bounds
ValidationRule(field, rule_type, min, max) ==
    [field |-> field, rule_type |-> rule_type, min |-> min, max |-> max]

\* OutputSchema {required_fields, field_types, validation_rules}; field_types
\* as the pairs its iteration yields
OutputSchema(required_fields, field_types, validation_rules) ==
    [required_fields |-> required_fields, field_types |-> field_types,
     validation_rules |-> validation_rules]

OutputSchemas ==
    {OutputSchema(required_fields, field_types, validation_rules) :
        required_fields \in {<<>>, <<"data">>, <<"data", "row_count">>},
        field_types \in {<<>>, <<<<"data", "string">>>>, <<<<"row_count", "number">>>>},
        validation_rules \in
            {<<>>,
             <<ValidationRule("data", "MinLength", Number(FALSE, 1), Number(FALSE, 0))>>,
             <<ValidationRule("row_count", "Range", Number(FALSE, 1), Number(FALSE, 5)),
               ValidationRule("data", "Custom", Number(FALSE, 0), Number(FALSE, 0))>>,
             <<ValidationRule("row_count", "Range", Number(FALSE, 0), Number(TRUE, 0))>>}}

\* ValidationResult::success, ::failure and ::with_warnings
validation_success == [valid |-> TRUE, errors |-> <<>>, warnings |-> <<>>]
validation_failure(errors) == [valid |-> FALSE, errors |-> errors, warnings |-> <<>>]
with_warnings(result, warnings) == [result EXCEPT !.warnings = warnings]

\* a return that takes warnings for errors
finish_strict(errors, warnings) == with_warnings(IF errors = <<>> /\ warnings = <<>> THEN validation_success ELSE validation_failure(errors), warnings)
\* `if errors.is_empty() { success().with_warnings(..) } else { failure(errors).with_warnings(..) }`
finish(errors, warnings) ==
    IF errors = <<>> THEN with_warnings(validation_success, warnings)
    ELSE with_warnings(validation_failure(errors), warnings)

\* OutputValidator::get_field and ::has_field
get_field(output, field) ==
    IF output.fields[field].present THEN <<output.fields[field]>> ELSE <<>>
has_field(output, field) == get_field(output, field) # <<>>

\* OutputValidator::check_type
check_type(value, expected_type) ==
    IF expected_type \in {"string", "number", "boolean", "array", "object", "null"}
    THEN value.type = expected_type
    ELSE TRUE

\* OutputValidator::apply_rule: the error of a broken rule, if any
apply_rule(rule, value) ==
    IF rule.rule_type = "MinLength" /\ value.type = "string" /\ value.size < rule.min.n
    THEN <<ValidationError(rule.field, "MinLength")>>
    ELSE IF rule.rule_type = "MaxLength" /\ value.type = "string" /\ value.size > rule.max.n
    THEN <<ValidationError(rule.field, "MaxLength")>>
    ELSE IF rule.rule_type = "Range" /\ value.type = "number"
            /\ (\/ f64_lt(as_f64(Number(value.wide, value.size)), as_f64(rule.min))
                \/ f64_lt(as_f64(rule.max), as_f64(Number(value.wide, value.size))))
    THEN <<ValidationError(rule.field, "Range")>>
    ELSE <<>>

\* a check of required fields that reports nothing
no_missing_required(required_fields, output) == <<>>
\* `for field in &schema.required_fields`
RECURSIVE missing_required(_, _)
missing_required(required_fields, output) ==
    IF required_fields = <<>> THEN <<>>
    ELSE (IF has_field(output, Head(required_fields)) THEN <<>>
          ELSE <<ValidationError(Head(required_fields), "MissingRequired")>>)
         \o missing_required(Tail(required_fields), output)

\* `for (field, expected_type) in &schema.field_types`
RECURSIVE type_mismatches(_, _)
type_mismatches(field_types, output) ==
    IF field_types = <<>> THEN <<>>
    ELSE LET field == Head(field_types)[1]
             expected_type == Head(field_types)[2]
             value == get_field(output, field)
         IN  (IF value # <<>> /\ ~check_type(value[1], expected_type)
              THEN <<ValidationError(field, "TypeMismatch")>> ELSE <<>>)
             \o type_mismatches(Tail(field_types), output)

\* `for rule in &schema.validation_rules`: the errors
RECURSIVE rule_errors(_, _)
rule_errors(validation_rules, output) ==
    IF validation_rules = <<>> THEN <<>>
    ELSE LET value == get_field(output, Head(validation_rules).field)
         IN  (IF value # <<>> THEN apply_rule(Head(validation_rules), value[1]) ELSE <<>>)
             \o rule_errors(Tail(validation_rules), output)

\* `for rule in &schema.validation_rules`: the warnings
RECURSIVE rule_warnings(_, _, _)
rule_warnings(validation_rules, required_fields, output) ==
    IF validation_rules = <<>> THEN <<>>
    ELSE LET field == Head(validation_rules).field
         IN  (IF ~has_field(output, field)
                 /\ \A i \in 1..Len(required_fields) : required_fields[i] # field
              THEN <<"Optional field not present for validation">> ELSE <<>>)
             \o rule_warnings(Tail(validation_rules), required_fields, output)

\* OutputValidator::validate: schema is self.schemas.get(schema_name)
validate(schema, output) ==
    IF schema = <<>>
    THEN validation_failure(<<ValidationError("schema", "SchemaNotFound")>>)
    ELSE finish(missing_required(schema[1].required_fields, output)
                \o type_mismatches(schema[1].field_types, output)
                \o rule_errors(schema[1].validation_rules, output),
                rule_warnings(schema[1].validation_rules, schema[1].required_fields,
                              output))

\* HandoffContract {schema, max_execution_time_ms, ..}
HandoffContract(schema, max_execution_time_ms) ==
    [schema |-> schema, max_execution_time_ms |-> max_execution_time_ms]

HandoffContracts ==
    {HandoffContract(schema, max_execution_time_ms) :
        schema \in OutputSchemas, max_execution_time_ms \in {<<>>, <<100>>}}

\* OutputMetadata {execution_time_ms, validation_result, ..}
OutputMetadata(execution_time_ms, validation_result) ==
    [execution_time_ms |-> execution_time_ms, validation_result |-> validation_result]

\* the ValidationResult values a metadata can carry (its fields are public)
EmbeddedValidations ==
    {validation_success,
     validation_failure(<<ValidationError("query", "Pattern")>>),
     validation_failure(<<>>),
     [valid |-> TRUE, errors |-> <<ValidationError("query", "Pattern")>>, warnings |-> <<>>]}

OutputMetadatas ==
    {OutputMetadata(execution_time_ms, validation_result) :
        execution_time_ms \in {10, 200},
        validation_result \in {<<>>} \cup {<<v>> : v \in EmbeddedValidations}}

\* the AgentResponse handed to validate_handoff: its variant, and for
\* Success its result string and its metadata
HandoffResponse(kind, result, metadata) ==
    [kind |-> kind, result |-> result, metadata |-> metadata]

NoHandoffResponse == HandoffResponse("none", NotJson, <<>>)

HandoffResponses ==
    {HandoffResponse("Failure", NotJson, <<>>), HandoffResponse("Timeout", NotJson, <<>>)}
    \cup {HandoffResponse("Success", result, metadata) :
            result \in {NotJson} \cup JsonValues,
            metadata \in {<<>>} \cup {<<m>> : m \in OutputMetadatas}}

\* a match that finds no fault with any response
no_response_errors(response) == <<>>
\* the Failure and Timeout arms of `match response`
response_errors(response) ==
    IF response.kind = "Failure" THEN <<ValidationError("response", "AgentFailure")>>
    ELSE IF response.kind = "Timeout" THEN <<ValidationError("response", "AgentTimeout")>>
    ELSE <<>>

\* `contract.schema.field_types.values().any(|t| t != "string")`
expects_structured_data(schema) ==
    \E i \in 1..Len(schema.field_types) : schema.field_types[i][2] # "string"

\* self.schemas.get(name) of the coordinator's validator: register_contract
\* registers the schema under the contract's name
registered_schema(contract) == IF contract = <<>> THEN <<>> ELSE <<contract[1].schema>>

ValidateIdle ==
    /\ v_pc = "idle" /\ v_fn = "none" /\ v_contract = <<>>
    /\ v_response = NoHandoffResponse /\ v_output = NotJson
    /\ v_errors = <<>> /\ v_warnings = <<>> /\ v_schemaValidation = <<>>
    /\ v_result = <<>> /\ v_evaluated = {}

SupIdle ==
    /\ s_pc = "idle" /\ s_maxSteps = 0 /\ s_maxSubGoals = 0 /\ s_coordinator = "none"
    /\ s_step = 0 /\ s_progress = NewTaskProgress /\ s_allSteps = <<>>
    /\ s_agentResults = <<>> /\ s_context = {} /\ s_passedContext = <<>>
    /\ s_history = <<>> /\ s_response = NoResponse /\ s_llmCalls = 0 /\ s_agentCalls = 0
    /\ s_last = "none" /\ s_decision = <<>> /\ s_agentResponse = <<>>

ReactIdle ==
    /\ r_pc = "idle" /\ r_variant = "standalone" /\ r_maxIterations = 0
    /\ r_returnToolOutput = FALSE /\ r_iteration = 0 /\ r_steps = <<>> /\ r_history = <<>>
    /\ r_lastToolOutput = <<>> /\ r_toolCalls = <<>> /\ r_response = NoResponse
    /\ r_llmCalls = 0 /\ r_toolRuns = 0 /\ r_last = "none" /\ r_decision = <<>>

SessionIdle ==
    /\ t_pc = "idle" /\ t_kind = "memory" /\ t_storage = <<>> /\ t_sessionId = <<>>
    /\ t_result = "none" /\ t_fresh = FALSE /\ t_sends = 0 /\ t_historyBefore = <<>>

BuilderIdle ==
    /\ a_pc = "idle" /\ a_description = <<>> /\ a_systemPrompt = <<>> /\ a_tools = 0
    /\ a_responseSchema = <<>> /\ a_returnToolOutput = FALSE /\ a_config = <<>>

BatchIdle ==
    /\ q_pc = "idle" /\ q_fn = "process_prompts" /\ q_prompts = 0 /\ q_concurrency = 0
    /\ q_next = 0 /\ q_inFlight = {} /\ q_results = <<>> /\ q_peak = 0

ActorsIdle ==
    /\ m_settings = <<>> /\ m_router = <<>> /\ m_tasks = <<>> /\ m_monitor = <<>>
    /\ m_inbox = <<>> /\ m_routerInbox = <<>> /\ m_requests = 0 /\ m_resetSent = <<>>

ApiIdle == SessionIdle /\ BuilderIdle /\ BatchIdle /\ ActorsIdle

ExecIdle ==
    /\ e_pc = "idle" /\ e_overflowChecks = FALSE /\ e_maxRetries = 0
    /\ e_attempt = 0 /\ e_lastError = NoneStr /\ e_result = NoResult /\ e_delay = NoDelay
    /\ e_calls = 0 /\ e_lastKind = "none" /\ e_retriedTerminal = FALSE

\* ToolExecutor::new(config) followed by the entry of execute
InitExec ==
    /\ ParseIdle /\ ReactIdle /\ SupIdle /\ ValidateIdle /\ ApiIdle
    /\ e_pc = "loop"
    /\ e_overflowChecks \in BOOLEAN
    /\ e_maxRetries \in 0..MaxRetriesBound
    /\ e_attempt = 0
    /\ e_lastError = NoneStr
    /\ e_result = NoResult
    /\ e_delay = NoDelay
    /\ e_calls = 0
    /\ e_lastKind = "none"
    /\ e_retriedTerminal = FALSE

\* One iteration of `for attempt in 0..self.config.max_retries`
ExecAttempt ==
    /\ e_pc = "loop"
    /\ e_attempt < e_maxRetries
    /\ LET backoff_ms == calculate_backoff(e_attempt, e_overflowChecks)
       IN  IF e_attempt > 0 /\ backoff_ms.panic
           THEN /\ e_pc' = "panicked"
                /\ UNCHANGED <<e_overflowChecks, e_maxRetries, e_attempt, e_lastError,
                               e_result, e_delay, e_calls, e_lastKind, e_retriedTerminal,
                               parseVars, reactVars, supVars, validateVars, apiVars>>
           ELSE \E o \in ToolOutcomes :
                /\ e_delay' = IF e_attempt > 0 THEN Some(backoff_ms.ms) ELSE NoDelay
                /\ e_calls' = e_calls + 1
                /\ e_lastKind' = o.kind
                \* last_error holds the previous attempt's error whenever attempt > 0
                /\ e_retriedTerminal' = (e_retriedTerminal \/ IsTerminalClass(e_lastError))
                /\ IF o.kind = "ok_success"
                   THEN /\ e_result' = ToolSuccess
                        /\ e_pc' = "done"
                        /\ UNCHANGED <<e_lastError, e_attempt>>
                   ELSE IF o.kind = "ok_failure" /\ ~should_retry(o.error)
                   THEN /\ e_result' = ToolFailure(o.error)
                        /\ e_pc' = "done"
                        /\ UNCHANGED <<e_lastError, e_attempt>>
                   ELSE /\ e_lastError' = o.error
                        /\ e_attempt' = e_attempt + 1
                        /\ UNCHANGED <<e_result, e_pc>>
                /\ UNCHANGED <<e_overflowChecks, e_maxRetries, parseVars, reactVars, supVars, validateVars, apiVars>>

\* Loop finished without returning: "All retries exhausted"
ExecExhausted ==
    /\ e_pc = "loop"
    /\ e_attempt = e_maxRetries
    /\ e_result' = ToolExhausted(e_maxRetries, e_lastError)
    /\ e_pc' = "done"
    /\ UNCHANGED <<e_overflowChecks, e_maxRetries, e_attempt, e_lastError,
                   e_delay, e_calls, e_lastKind, e_retriedTerminal, parseVars, reactVars, supVars, validateVars, apiVars>>

NextExec == ExecAttempt \/ ExecExhausted

SpecExec == InitExec /\ [][NextExec]_vars

InitParse ==
    /\ ExecIdle /\ ReactIdle /\ SupIdle /\ ValidateIdle /\ ApiIdle
    /\ p_pc = "call"
    /\ p_site \in Sites
    /\ p_reply \in {LlmErr} \cup {LlmOk(t) : t \in Texts(Chunks(p_site), MaxChunks)}
    /\ p_result = NoThink

\* the LLM call failed: `?` returns the error
ThinkLlmFails ==
    /\ p_pc = "call"
    /\ ~p_reply.ok
    /\ p_result' = think(p_site, p_reply)
    /\ p_pc' = "done"
    /\ UNCHANGED <<p_site, p_reply, execVars, reactVars, supVars, validateVars, apiVars>>

\* the LLM call returned a response, which is parsed
ThinkParses ==
    /\ p_pc = "call"
    /\ p_reply.ok
    /\ p_result' = think(p_site, p_reply)
    /\ p_pc' = IF think(p_site, p_reply).kind = "panic" THEN "panicked" ELSE "done"
    /\ UNCHANGED <<p_site, p_reply, execVars, reactVars, supVars, validateVars, apiVars>>

NextParse == ThinkLlmFails \/ ThinkParses

SpecParse == InitParse /\ [][NextParse]_vars

(***************************************************************************)
(* The ReAct loops as state machines                                       *)
(***************************************************************************)
CurrentReact ==
    ReactState(r_pc, r_iteration, r_steps, r_history, r_lastToolOutput, r_toolCalls,
               r_response, r_last)

SetReact(st) ==
    /\ r_pc' = st.pc
    /\ r_iteration' = st.iteration
    /\ r_steps' = st.steps
    /\ r_history' = st.history
    /\ r_lastToolOutput' = st.last_tool_output
    /\ r_toolCalls' = st.tool_calls
    /\ r_response' = st.response
    /\ r_last' = st.last

\* the run needs the tool executor in this iteration
RunsTool(variant, reply) ==
    LET decided == think(variant, reply)
    IN  /\ decided.kind = "ok"
        /\ ~decided.d[1].is_final
        /\ decided.d[1].action \in Registry

\* entry of run_react_loop / execute_task_with_context / send_message's
\* call of execute_react_loop (first message of a session): the system
\* prompt and the task are in the conversation
InitReact ==
    /\ ExecIdle /\ ParseIdle /\ SupIdle /\ ValidateIdle /\ ApiIdle
    /\ r_pc = "loop"
    /\ r_variant \in {"standalone", "specialized", "session"}
    /\ r_maxIterations \in 0..MaxIterations
    /\ r_returnToolOutput \in (IF r_variant = "specialized" THEN BOOLEAN ELSE {FALSE})
    /\ r_iteration = 0
    /\ r_steps = <<>>
    /\ r_history = <<Msg("system", "system_prompt"), Msg("user", "task")>>
    /\ r_lastToolOutput = <<>>
    /\ r_toolCalls = <<>>
    /\ r_response = NoResponse
    /\ r_llmCalls = 0
    /\ r_toolRuns = 0
    /\ r_last = "none"
    /\ r_decision = <<>>

\* the decision the iteration works on, if the LLM call and the parse gave one
ReactDecisionOf(variant, reply) ==
    LET decided == think(variant, reply)
    IN  IF decided.kind = "ok" THEN decided.d ELSE <<>>

ReactIterate ==
    /\ r_pc = "loop"
    /\ r_variant \in {"standalone", "specialized"}
    /\ in_range(r_iteration, r_maxIterations)
    /\ \E reply \in ReactReplies, run \in ToolRuns :
          /\ SetReact(react_iteration(r_variant, r_maxIterations, r_returnToolOutput,
                                      CurrentReact, reply, run))
          /\ r_llmCalls' = r_llmCalls + 1
          /\ r_toolRuns' = r_toolRuns + (IF RunsTool(r_variant, reply) THEN 1 ELSE 0)
          /\ r_decision' = ReactDecisionOf(r_variant, reply)
    /\ UNCHANGED <<r_variant, r_maxIterations, r_returnToolOutput, execVars, parseVars, supVars, validateVars, apiVars>>

ReactMaxIterations ==
    /\ r_pc = "loop"
    /\ r_variant \in {"standalone", "specialized"}
    /\ ~in_range(r_iteration, r_maxIterations)
    /\ SetReact(react_timeout(r_maxIterations, CurrentReact))
    /\ UNCHANGED <<r_variant, r_maxIterations, r_returnToolOutput, r_llmCalls, r_toolRuns,
                   r_decision, execVars, parseVars, supVars, validateVars, apiVars>>

SessionIterateWith(Replies, Runs) ==
    /\ r_pc = "loop"
    /\ r_variant = "session"
    /\ in_range(r_iteration, r_maxIterations)
    /\ \E reply \in Replies, run \in Runs :
          /\ SetReact(session_iteration(CurrentReact, reply, run))
          /\ r_llmCalls' = r_llmCalls + 1
          /\ r_toolRuns' = r_toolRuns + (IF RunsTool("session", reply) THEN 1 ELSE 0)
          /\ r_decision' = ReactDecisionOf("session", reply)
    /\ UNCHANGED <<r_variant, r_maxIterations, r_returnToolOutput, execVars, parseVars, supVars, validateVars, apiVars>>

SessionMaxIterations ==
    /\ r_pc = "loop"
    /\ r_variant = "session"
    /\ ~in_range(r_iteration, r_maxIterations)
    /\ SetReact(session_timeout(CurrentReact))
    /\ UNCHANGED <<r_variant, r_maxIterations, r_returnToolOutput, r_llmCalls, r_toolRuns,
                   r_decision, execVars, parseVars, supVars, validateVars, apiVars>>

SessionIterate == SessionIterateWith(ReactReplies, ToolRuns)

NextReact == ReactIterate \/ ReactMaxIterations \/ SessionIterate \/ SessionMaxIterations

SpecReact == InitReact /\ [][NextReact]_vars

(***************************************************************************)
(* AgentSession over a ConversationStorage                                 *)
(***************************************************************************)
MaxMessages == 2

SessionIds == {"user-1", "user-2"}
StorageKinds == {"memory", "filesystem"}
\* the max_iterations Session::send_message_with_iterations sets for a send
SessionIterationLimits == {1, 2}

\* serde_json::to_string_pretty(history): one object per ChatMessage, with
\* its role and its content (the content text is made of the parts the
\* loop formats into it)
to_string_pretty(history) ==
    [i \in 1..Len(history) |->
        [role |-> history[i].role,
         content |-> <<history[i].content, history[i].observation,
                       history[i].hint, history[i].warning>>]]

\* serde_json::from_str::<Vec<ChatMessage>>(json)
history_from_str(json) ==
    [i \in 1..Len(json) |->
        [role |-> json[i].role, content |-> json[i].content[1],
         observation |-> json[i].content[2], hint |-> json[i].content[3],
         warning |-> json[i].content[4]]]

\* InMemoryStorage keeps history.to_vec(), FileSystemStorage the JSON text
stored_form(kind, history) ==
    IF kind = "memory" THEN history ELSE to_string_pretty(history)

\* ConversationStorage::save, when it returns Ok
save(kind, storage, session_id, history) ==
    [storage EXCEPT ![session_id] = <<stored_form(kind, history)>>]

\* ConversationStorage::load, when it returns Ok: the empty vector for a
\* session that is not stored
load(kind, storage, session_id) ==
    IF storage[session_id] = <<>> THEN <<>>
    ELSE IF kind = "memory" THEN storage[session_id][1]
    ELSE history_from_str(storage[session_id][1])

\* ConversationStorage::delete, when it returns Ok
delete(storage, session_id) == [storage EXCEPT ![session_id] = <<>>]

\* whether a storage call returns Ok: InMemoryStorage always does, the
\* file system may fail a read or a write
StorageOutcomes(kind) == IF kind = "memory" THEN {TRUE} ELSE BOOLEAN

\* the replies and tool runs offered to a session's loop
SessionReplies ==
    {LlmErr,
     LlmOk(<<DecisionJson([thought |-> "text", action |-> "none", is_final |-> TRUE,
                           final_answer |-> "decision.final_answer"])>>),
     LlmOk(<<DecisionJson([thought |-> "text", action |-> "read_file", is_final |-> FALSE,
                           final_answer |-> "none"])>>),
     LlmOk(<<DecisionJson([thought |-> "text", action |-> "no_such_tool", is_final |-> FALSE,
                           final_answer |-> "none"])>>),
     LlmOk(<<DecisionJson([thought |-> "empty", action |-> "none", is_final |-> FALSE,
                           final_answer |-> "none"])>>)}
SessionRuns == {ToolRunOk("out_a"), ToolRunFailed, ToolRunErr}

InitSession ==
    /\ ExecIdle /\ ParseIdle /\ SupIdle /\ ValidateIdle /\ BuilderIdle /\ BatchIdle /\ ActorsIdle
    /\ t_pc = "closed"
    /\ t_kind \in StorageKinds
    /\ t_storage = [id \in SessionIds |-> <<>>]
    /\ t_sessionId = <<>>
    /\ t_result = "none"
    /\ t_fresh = FALSE
    /\ t_sends = 0
    /\ t_historyBefore = <<>>
    /\ r_pc = "idle" /\ r_variant = "session" /\ r_maxIterations = 0
    /\ r_returnToolOutput = FALSE /\ r_iteration = 0 /\ r_steps = <<>> /\ r_history = <<>>
    /\ r_lastToolOutput = <<>> /\ r_toolCalls = <<>> /\ r_response = NoResponse
    /\ r_llmCalls = 0 /\ r_toolRuns = 0 /\ r_last = "none" /\ r_decision = <<>>

\* AgentSession::new(session_id, storage, ..), the session it replaces
\* being dropped
SessionNew ==
    /\ t_pc \in {"closed", "ready"}
    /\ \E session_id \in SessionIds, loaded \in StorageOutcomes(t_kind) :
          /\ t_sessionId' = <<session_id>>
          /\ r_history' = IF loaded THEN load(t_kind, t_storage, session_id) ELSE <<>>
    /\ t_pc' = "ready"
    /\ t_result' = "none"
    /\ t_fresh' = TRUE
    /\ r_pc' = "idle" /\ r_iteration' = 0 /\ r_steps' = <<>> /\ r_response' = NoResponse
    /\ r_llmCalls' = 0 /\ r_toolRuns' = 0 /\ r_last' = "none" /\ r_decision' = <<>>
    /\ UNCHANGED <<t_kind, t_storage, t_sends, t_historyBefore, r_variant, r_maxIterations,
                   r_returnToolOutput,
                   r_lastToolOutput, r_toolCalls, builderVars, batchVars, actorVars,
                   execVars, parseVars, supVars, validateVars>>

\* send_message up to its call of execute_react_loop
SessionSendMessage ==
    /\ t_pc = "ready"
    /\ t_sends < MaxMessages
    /\ r_maxIterations' \in SessionIterationLimits
    /\ r_history' = (IF r_history = <<>> THEN <<Msg("system", "system_prompt")>> ELSE r_history)
                       \o <<Msg("user", "message")>>
    /\ r_pc' = "loop" /\ r_iteration' = 0 /\ r_steps' = <<>> /\ r_response' = NoResponse
    /\ r_llmCalls' = 0 /\ r_toolRuns' = 0 /\ r_last' = "none" /\ r_decision' = <<>>
    /\ t_pc' = "sending"
    /\ t_result' = "none"
    /\ t_fresh' = FALSE
    /\ t_sends' = t_sends + 1
    /\ t_historyBefore' = r_history
    /\ UNCHANGED <<t_kind, t_storage, t_sessionId, r_variant, r_returnToolOutput,
                   r_lastToolOutput, r_toolCalls, builderVars, batchVars, actorVars,
                   execVars, parseVars, supVars, validateVars>>

SessionLoopStep == t_pc = "sending" /\ SessionIterateWith(SessionReplies, SessionRuns)

SessionLoopEnd == t_pc = "sending" /\ SessionMaxIterations

\* send_message after execute_react_loop: an Err of the loop is returned as
\* it is, else the history is saved and the response returned
SessionPersist ==
    /\ t_pc = "sending"
    /\ r_pc = "done"
    /\ \E saved \in StorageOutcomes(t_kind) :
          IF r_response = SessionErr
          THEN t_result' = "Err" /\ t_storage' = t_storage
          ELSE IF saved
          THEN /\ t_result' = "Ok"
               /\ t_storage' = save(t_kind, t_storage, t_sessionId[1], r_history)
          ELSE t_result' = "Err" /\ t_storage' = t_storage
    /\ t_pc' = "ready"
    /\ UNCHANGED <<t_kind, t_sessionId, t_fresh, t_sends, t_historyBefore, reactVars,
                   builderVars, batchVars, actorVars,
                   execVars, parseVars, supVars, validateVars>>

\* clear_history
SessionClearHistory ==
    /\ t_pc = "ready"
    /\ r_history' = <<>>
    /\ \E deleted \in StorageOutcomes(t_kind) :
          t_storage' = IF deleted THEN delete(t_storage, t_sessionId[1]) ELSE t_storage
    /\ t_result' = "none"
    /\ t_fresh' = FALSE
    /\ UNCHANGED <<t_pc, t_kind, t_sessionId, t_sends, t_historyBefore, r_pc, r_variant,
                   r_maxIterations,
                   r_returnToolOutput, r_iteration, r_steps, r_lastToolOutput, r_toolCalls,
                   r_response, r_llmCalls, r_toolRuns, r_last, r_decision,
                   builderVars, batchVars, actorVars, execVars, parseVars, supVars, validateVars>>

NextSession ==
    \/ SessionNew \/ SessionSendMessage \/ SessionLoopStep \/ SessionLoopEnd
    \/ SessionPersist \/ SessionClearHistory

SpecSession == InitSession /\ [][NextSession]_vars

(***************************************************************************)
(* batch::process_prompts and batch::process_with_context                  *)
(***************************************************************************)
MaxPrompts == 3
MaxConcurrency == 3

BatchFns == {"process_prompts", "process_with_context"}

\* a buffer that starts every future the stream yields
unbounded_capacity(in_flight, concurrency) == TRUE
\* buffer_unordered(concurrency): another future is taken from the stream
\* while fewer than `concurrency` are in progress
has_capacity(in_flight, concurrency) == Cardinality(in_flight) < concurrency

\* stream::iter(prompts) has another prompt to yield
stream_has_next(next, prompts) == next <= prompts

\* Result<String> of chat / chat_with_system for a prompt
BatchResult(prompt, ok) == [prompt |-> prompt, ok |-> ok]

InitBatch ==
    /\ ExecIdle /\ ParseIdle /\ ReactIdle /\ SupIdle /\ ValidateIdle
    /\ SessionIdle /\ BuilderIdle /\ ActorsIdle
    /\ q_pc = "running"
    /\ q_fn \in BatchFns
    /\ q_prompts \in 0..MaxPrompts
    /\ q_concurrency \in 0..MaxConcurrency
    /\ q_next = 1
    /\ q_inFlight = {}
    /\ q_results = <<>>
    /\ q_peak = 0

\* the buffer takes the next prompt's future from the stream and starts it:
\* chat(prompt) or chat_with_system(prompt, Some(context)) is in flight
BatchStart ==
    /\ q_pc = "running"
    /\ stream_has_next(q_next, q_prompts)
    /\ has_capacity(q_inFlight, q_concurrency)
    /\ q_inFlight' = q_inFlight \cup {q_next}
    /\ q_next' = q_next + 1
    /\ q_peak' = IF Cardinality(q_inFlight') > q_peak THEN Cardinality(q_inFlight') ELSE q_peak
    /\ UNCHANGED <<q_pc, q_fn, q_prompts, q_concurrency, q_results, sessionVars, builderVars, actorVars,
                   execVars, parseVars, reactVars, supVars, validateVars>>

\* one of the futures in progress completes, in any order, and collect
\* takes its result; the buffer is filled before its futures are polled
BatchFinish ==
    /\ q_pc = "running"
    /\ ~(stream_has_next(q_next, q_prompts) /\ has_capacity(q_inFlight, q_concurrency))
    /\ \E prompt \in q_inFlight, ok \in BOOLEAN :
          /\ q_inFlight' = q_inFlight \ {prompt}
          /\ q_results' = Append(q_results, BatchResult(prompt, ok))
    /\ UNCHANGED <<q_pc, q_fn, q_prompts, q_concurrency, q_next, q_peak, sessionVars,
                   builderVars, actorVars, execVars, parseVars, reactVars, supVars, validateVars>>

\* the stream is exhausted and no future is in progress: collect returns
BatchReturn ==
    /\ q_pc = "running"
    /\ ~stream_has_next(q_next, q_prompts)
    /\ q_inFlight = {}
    /\ q_pc' = "returned"
    /\ UNCHANGED <<q_fn, q_prompts, q_concurrency, q_next, q_inFlight, q_results, q_peak,
                   sessionVars, builderVars, actorVars, execVars, parseVars, reactVars, supVars,
                   validateVars>>

NextBatch == BatchStart \/ BatchFinish \/ BatchReturn

SpecBatch == InitBatch /\ [][NextBatch]_vars

(***************************************************************************)
(* AgentBuilder                                                            *)
(***************************************************************************)
MaxTools == 2

Schemas == {"schema_a", "schema_b"}

\* AgentBuilder::build: the configuration tuple
build(name, description, system_prompt, tools, response_schema, return_tool_output) ==
    [name |-> name,
     description |-> IF description = <<>> THEN "Specialized agent: name" ELSE description[1],
     system_prompt |-> IF system_prompt = <<>>
                       THEN "You are a specialized agent named name" ELSE system_prompt[1],
     tools |-> tools,
     response_schema |-> response_schema,
     return_tool_output |-> return_tool_output]

\* AgentBuilder::new(name)
InitBuilder ==
    /\ ExecIdle /\ ParseIdle /\ ReactIdle /\ SupIdle /\ ValidateIdle
    /\ SessionIdle /\ BatchIdle /\ ActorsIdle
    /\ a_pc = "building"
    /\ a_description = <<>>
    /\ a_systemPrompt = <<>>
    /\ a_tools = 0
    /\ a_responseSchema = <<>>
    /\ a_returnToolOutput = FALSE
    /\ a_config = <<>>

\* .description(description)
BuilderDescription ==
    /\ a_pc = "building"
    /\ a_description' = <<"description">>
    /\ UNCHANGED <<a_pc, a_systemPrompt, a_tools, a_responseSchema, a_returnToolOutput, a_config,
                   sessionVars, batchVars, actorVars, execVars, parseVars, reactVars, supVars, validateVars>>

\* .system_prompt(prompt)
BuilderSystemPrompt ==
    /\ a_pc = "building"
    /\ a_systemPrompt' = <<"prompt">>
    /\ UNCHANGED <<a_pc, a_description, a_tools, a_responseSchema, a_returnToolOutput, a_config,
                   sessionVars, batchVars, actorVars, execVars, parseVars, reactVars, supVars, validateVars>>

\* .tool(tool) / .tool_arc(tool)
BuilderTool ==
    /\ a_pc = "building"
    /\ a_tools < MaxTools
    /\ a_tools' = a_tools + 1
    /\ UNCHANGED <<a_pc, a_description, a_systemPrompt, a_responseSchema, a_returnToolOutput,
                   a_config, sessionVars, batchVars, actorVars, execVars, parseVars, reactVars, supVars,
                   validateVars>>

\* .response_schema(schema)
BuilderResponseSchema ==
    /\ a_pc = "building"
    /\ \E schema \in Schemas : a_responseSchema' = <<schema>>
    /\ UNCHANGED <<a_pc, a_description, a_systemPrompt, a_tools, a_returnToolOutput, a_config,
                   sessionVars, batchVars, actorVars, execVars, parseVars, reactVars, supVars, validateVars>>

\* .return_tool_output(enabled)
BuilderReturnToolOutput ==
    /\ a_pc = "building"
    /\ \E enabled \in BOOLEAN : a_returnToolOutput' = enabled
    /\ UNCHANGED <<a_pc, a_description, a_systemPrompt, a_tools, a_responseSchema, a_config,
                   sessionVars, batchVars, actorVars, execVars, parseVars, reactVars, supVars, validateVars>>

\* .build()
BuilderBuild ==
    /\ a_pc = "building"
    /\ a_config' = <<build("name", a_description, a_systemPrompt, a_tools, a_responseSchema,
                           a_returnToolOutput)>>
    /\ a_pc' = "built"
    /\ UNCHANGED <<a_description, a_systemPrompt, a_tools, a_responseSchema, a_returnToolOutput,
                   sessionVars, batchVars, actorVars, execVars, parseVars, reactVars, supVars, validateVars>>

NextBuilder ==
    \/ BuilderDescription \/ BuilderSystemPrompt \/ BuilderTool \/ BuilderResponseSchema
    \/ BuilderReturnToolOutput \/ BuilderBuild

SpecBuilder == InitBuilder /\ [][NextBuilder]_vars

(***************************************************************************)
(* The actor system: router_actor, health_monitor_actor and the LLM, MCP   *)
(* and Agent actor tasks. Time is counted in ticks; a timer is the number  *)
(* of ticks until it fires, a heartbeat entry the age of the heartbeat.    *)
(***************************************************************************)
MaxInterval == 2
MaxRequests == 1
MaxTasks == 2

\* the actors the router has a handle for
ActorTypes == {"LLM", "MCP", "Agent"}
\* llm_actor and mcp_actor wait for a message under a timeout
TimeoutActors == {"LLM", "MCP"}
\* the actor types that send heartbeats
MonitoredTypes == ActorTypes \cup {"Router"}

\* settings.system
\* the [system] table of the settings. A heartbeat_timeout shorter than the
\* period of the heartbeats reports every actor stale between two
\* heartbeats; the settings taken are those under which an actor that waits
\* for work stays fresh.
SystemConfigs ==
    {c \in [heartbeat_interval : 1..MaxInterval, check_interval : 1..MaxInterval,
            heartbeat_timeout : 1..MaxInterval, auto_restart : BOOLEAN] :
        /\ c.heartbeat_timeout >= c.heartbeat_interval
        /\ c.heartbeat_timeout >= c.check_interval}
Heartbeat(actor_type) == [kind |-> "Heartbeat", actor |-> actor_type]
Reset(actor_type) == [kind |-> "Reset", actor |-> actor_type]
ShutdownMsg == [kind |-> "Shutdown", actor |-> "Router"]

\* an actor task: "idle" (waiting in its loop), "busy" (inside a message
\* handler) or "stopped" (returned); connected: the router's handle holds
\* the sender of its channel
ActorTask(state, connected, timer) == [state |-> state, connected |-> connected, timer |-> timer]

\* LLMActorHandle::new / MCPActorHandle::new / AgentActorHandle::new: the
\* task spawned. The agent's interval ticks at once, the others' timeout
\* runs for check_interval_ms.
spawn(actor_type, settings) ==
    ActorTask("idle", TRUE, IF actor_type = "Agent" THEN 0 ELSE settings.check_interval)

\* the time an actor waits before its next heartbeat
heartbeat_wait(actor_type, settings) ==
    IF actor_type = "Agent" THEN settings.heartbeat_interval ELSE settings.check_interval

IsStopped(task) == task.state = "stopped"
IsRunning(task) == task.state # "stopped"

\* the handle is dropped: the tasks of the type lose their sender; a task
\* that has returned is gone
drop_handle(tasks) ==
    LET running == SelectSeq(tasks, IsRunning)
    IN  [i \in 1..Len(running) |-> [running[i] EXCEPT !.connected = FALSE]]

\* the sequence without its i-th element
RemoveAt(seq, i) == SubSeq(seq, 1, i - 1) \o SubSeq(seq, i + 1, Len(seq))

\* a heartbeat entry is stale: *last_heartbeat < now - check_interval, where
\* check_interval is heartbeat_timeout_ms
is_stale(entry, settings) == entry # <<>> /\ entry[1] > settings.heartbeat_timeout

\* a monitor that finds no entry stale

\* channel.send(message): nothing is queued once the receiver is gone
send(channel, receiver_alive, message) ==
    IF receiver_alive THEN Append(channel, message) ELSE channel

\* every order in which a set of actor types can be visited (HashMap::iter)
Orders(S) ==
    {seq \in [1..Cardinality(S) -> S] : \A i, j \in 1..Cardinality(S) : seq[i] = seq[j] => i = j}

\* MessageRouterHandle::new: the router spawns the three actors and the
\* health monitor
InitActors ==
    /\ ExecIdle /\ ParseIdle /\ ReactIdle /\ SupIdle /\ ValidateIdle
    /\ SessionIdle /\ BuilderIdle /\ BatchIdle
    /\ m_settings \in SystemConfigs
    /\ m_router = [alive |-> TRUE, heartbeat_in |-> 0]
    /\ m_tasks = [t \in ActorTypes |-> <<spawn(t, m_settings)>>]
    /\ m_monitor = [alive |-> TRUE, heartbeats |-> [t \in MonitoredTypes |-> <<>>],
                    recv_timeout |-> m_settings.check_interval]
    /\ m_inbox = <<>>
    /\ m_routerInbox = <<>>
    /\ m_requests = 0
    /\ m_resetSent = [t \in ActorTypes |-> FALSE]

OtherGroupsUnchanged ==
    UNCHANGED <<sessionVars, builderVars, batchVars, execVars, parseVars, reactVars, supVars,
                validateVars>>

\* nothing is due at this instant: no message waits, no timer has run out,
\* and no timeout actor sits on a closed channel
NothingDue ==
    /\ m_inbox = <<>>
    /\ m_routerInbox = <<>>
    /\ m_router.alive => m_router.heartbeat_in > 0
    /\ m_monitor.alive => m_monitor.recv_timeout > 0
    /\ \A t \in ActorTypes : \A i \in 1..Len(m_tasks[t]) :
          LET task == m_tasks[t][i]
          IN  task.state = "idle" =>
                 /\ task.timer > 0
                 /\ t \in TimeoutActors => task.connected

Decrement(n) == IF n > 0 THEN n - 1 ELSE 0

\* one tick of time passes
Tick ==
    /\ NothingDue
    /\ m_router' = IF m_router.alive THEN [m_router EXCEPT !.heartbeat_in = Decrement(@)]
                   ELSE m_router
    /\ m_monitor' =
          IF ~m_monitor.alive THEN m_monitor ELSE
          [m_monitor EXCEPT
              !.recv_timeout = Decrement(@),
              !.heartbeats = [t \in MonitoredTypes |->
                                 IF @[t] = <<>> \/ is_stale(@[t], m_settings) THEN @[t]
                                 ELSE <<@[t][1] + 1>>]]
    /\ m_tasks' = [t \in ActorTypes |->
                      [i \in 1..Len(m_tasks[t]) |->
                          LET task == m_tasks[t][i]
                          IN  IF task.state = "idle" \/ t = "Agent"
                              THEN [task EXCEPT !.timer = Decrement(@)]
                              ELSE task]]
    /\ UNCHANGED <<m_settings, m_inbox, m_routerInbox, m_requests, m_resetSent>>
    /\ OtherGroupsUnchanged

\* router_actor: heartbeat_timer.tick()
RouterHeartbeat ==
    /\ m_router.alive
    /\ m_router.heartbeat_in = 0
    /\ m_inbox' = send(m_inbox, m_monitor.alive, Heartbeat("Router"))
    /\ m_router' = [m_router EXCEPT !.heartbeat_in = m_settings.heartbeat_interval]
    /\ UNCHANGED <<m_settings, m_tasks, m_monitor, m_routerInbox, m_requests, m_resetSent>>
    /\ OtherGroupsUnchanged

\* llm_actor / mcp_actor: the timeout on recv ran out, send_heartbeat();
\* agent_actor: heartbeat_timer.tick()
ActorHeartbeat ==
    /\ \E t \in ActorTypes : \E i \in 1..Len(m_tasks[t]) :
          /\ m_tasks[t][i].state = "idle"
          /\ m_tasks[t][i].timer = 0
          /\ t \in TimeoutActors => m_tasks[t][i].connected
          /\ m_inbox' = send(m_inbox, m_monitor.alive, Heartbeat(t))
          /\ m_tasks' = [m_tasks EXCEPT ![t][i].timer = heartbeat_wait(t, m_settings)]
    /\ UNCHANGED <<m_settings, m_router, m_monitor, m_routerInbox, m_requests, m_resetSent>>
    /\ OtherGroupsUnchanged

\* a request reaches the router, which passes it to the actor its handle
\* points to; the actor takes it and is inside its handler
ActorReceive ==
    /\ m_router.alive
    /\ m_requests < MaxRequests
    /\ \E t \in ActorTypes :
          LET i == Len(m_tasks[t])
          IN  /\ m_tasks[t][i].state = "idle"
              /\ m_tasks[t][i].connected
              /\ m_tasks' = [m_tasks EXCEPT ![t][i].state = "busy"]
    /\ m_requests' = m_requests + 1
    /\ UNCHANGED <<m_settings, m_router, m_monitor, m_inbox, m_routerInbox, m_resetSent>>
    /\ OtherGroupsUnchanged

\* the handler returns and the actor is back at the top of its loop: the
\* timeout actors start a new timeout
ActorFinish ==
    /\ \E t \in ActorTypes : \E i \in 1..Len(m_tasks[t]) :
          /\ m_tasks[t][i].state = "busy"
          /\ m_tasks' = [m_tasks EXCEPT
                            ![t][i].state = "idle",
                            ![t][i].timer = IF t \in TimeoutActors
                                            THEN m_settings.check_interval ELSE @]
    /\ UNCHANGED <<m_settings, m_router, m_monitor, m_inbox, m_routerInbox, m_requests,
                   m_resetSent>>
    /\ OtherGroupsUnchanged

\* llm_actor / mcp_actor: recv gives Ok(None) on a channel whose sender is
\* gone, and the actor breaks out of its loop. agent_actor has no such arm:
\* its `Some(message) = receiver.recv()` branch is only disabled.
ActorChannelClosed ==
    /\ \E t \in TimeoutActors : \E i \in 1..Len(m_tasks[t]) :
          /\ m_tasks[t][i].state = "idle"
          /\ ~m_tasks[t][i].connected
          /\ m_tasks' = [m_tasks EXCEPT ![t] = RemoveAt(@, i)]
    /\ UNCHANGED <<m_settings, m_router, m_monitor, m_inbox, m_routerInbox, m_requests,
                   m_resetSent>>
    /\ OtherGroupsUnchanged

\* agent::stop sends AgentMessage::Stop through the router: the agent actor
\* breaks out of its loop
AgentStop ==
    /\ m_router.alive
    /\ m_requests < MaxRequests
    /\ LET i == Len(m_tasks["Agent"])
       IN  /\ m_tasks["Agent"][i].state = "idle"
           /\ m_tasks["Agent"][i].connected
           /\ m_tasks' = [m_tasks EXCEPT !["Agent"][i].state = "stopped"]
    /\ m_requests' = m_requests + 1
    /\ m_resetSent' = [m_resetSent EXCEPT !["Agent"] = FALSE]
    /\ UNCHANGED <<m_settings, m_router, m_monitor, m_inbox, m_routerInbox>>
    /\ OtherGroupsUnchanged

\* health_monitor_actor: a message arrived before the timeout ran out. The
\* timeout is built anew on every turn of the loop.
MonitorReceive ==
    /\ m_monitor.alive
    /\ m_inbox # <<>>
    /\ LET message == Head(m_inbox)
       IN  IF message.kind = "Heartbeat"
           THEN /\ m_monitor' = [m_monitor EXCEPT
                                    !.heartbeats[message.actor] = <<0>>,
                                    !.recv_timeout = m_settings.check_interval]
                /\ m_inbox' = Tail(m_inbox)
           ELSE /\ m_monitor' = [m_monitor EXCEPT !.alive = FALSE]
                /\ m_inbox' = <<>>
    /\ UNCHANGED <<m_settings, m_router, m_tasks, m_routerInbox, m_requests, m_resetSent>>
    /\ OtherGroupsUnchanged

StaleTypes == {t \in MonitoredTypes : is_stale(m_monitor.heartbeats[t], m_settings)}

\* health_monitor_actor: the timeout ran out with no message, so
\* check_actor_health runs over the map, in the map's order
MonitorCheck ==
    /\ m_monitor.alive
    /\ m_monitor.recv_timeout = 0
    /\ m_inbox = <<>>
    /\ \E order \in Orders(StaleTypes) :
          m_routerInbox' =
             IF m_router.alive
             THEN m_routerInbox \o [i \in 1..Len(order) |-> Reset(order[i])]
             ELSE m_routerInbox
    /\ m_resetSent' = [t \in ActorTypes |-> m_resetSent[t] \/ t \in StaleTypes]
    /\ m_monitor' = [m_monitor EXCEPT !.recv_timeout = m_settings.check_interval]
    /\ UNCHANGED <<m_settings, m_router, m_tasks, m_inbox, m_requests>>
    /\ OtherGroupsUnchanged

\* router_actor: RoutingMessage::Reset(actor_type) from the monitor
RouterReset ==
    /\ m_router.alive
    /\ m_routerInbox # <<>>
    /\ LET t == Head(m_routerInbox).actor
       IN  IF m_settings.auto_restart /\ t \in ActorTypes
           THEN /\ Len(m_tasks[t]) < MaxTasks
                /\ m_tasks' = [m_tasks EXCEPT
                                  ![t] = drop_handle(@) \o <<spawn(t, m_settings)>>]
           ELSE UNCHANGED m_tasks
    /\ m_routerInbox' = Tail(m_routerInbox)
    /\ UNCHANGED <<m_settings, m_router, m_monitor, m_inbox, m_requests, m_resetSent>>
    /\ OtherGroupsUnchanged

\* router_actor: RoutingMessage::Shutdown from the external interface
\* (lib.rs shutdown): tell the monitor and leave the loop, which drops the
\* three handles and the receiver of the monitor's requests
RouterShutdown ==
    /\ m_router.alive
    /\ m_routerInbox = <<>>
    /\ m_inbox' = send(m_inbox, m_monitor.alive, ShutdownMsg)
    /\ m_router' = [m_router EXCEPT !.alive = FALSE]
    /\ m_tasks' = [t \in ActorTypes |-> drop_handle(m_tasks[t])]
    /\ UNCHANGED <<m_settings, m_monitor, m_routerInbox, m_requests, m_resetSent>>
    /\ OtherGroupsUnchanged

NextActors ==
    \/ Tick
    \/ RouterHeartbeat
    \/ ActorHeartbeat
    \/ ActorReceive
    \/ ActorFinish
    \/ ActorChannelClosed
    \/ AgentStop
    \/ MonitorReceive
    \/ MonitorCheck
    \/ RouterReset
    \/ RouterShutdown

SpecActors == InitActors /\ [][NextActors]_vars

\* every task that is spawned is scheduled, a timer that ran out fires, a
\* handler that was entered returns; requests and shutdown are the
\* environment's choice
SpecActorsFair ==
    /\ SpecActors
    /\ WF_vars(Tick)
    /\ WF_vars(RouterHeartbeat)
    /\ WF_vars(ActorHeartbeat)
    /\ WF_vars(ActorFinish)
    /\ WF_vars(ActorChannelClosed)
    /\ WF_vars(MonitorReceive)
    /\ WF_vars(MonitorCheck)
    /\ WF_vars(RouterReset)

(***************************************************************************)
(* orchestrate as a state machine                                          *)
(***************************************************************************)
CurrentSup ==
    SupState(s_pc, s_step, s_progress, s_allSteps, s_agentResults, s_context,
             s_passedContext, s_history, s_response, s_last)

SetSup(st) ==
    /\ s_pc' = st.pc
    /\ s_step' = st.step
    /\ s_progress' = st.progress
    /\ s_allSteps' = st.all_steps
    /\ s_agentResults' = st.agent_results
    /\ s_context' = st.context
    /\ s_passedContext' = st.passed_context
    /\ s_history' = st.history
    /\ s_response' = st.response
    /\ s_last' = st.last

\* the step runs an agent
InvokesAgent(reply) ==
    LET decided == think("supervisor", reply)
    IN  /\ decided.kind = "ok"
        /\ ~decided.d[1].is_final
        /\ decided.d[1].agent_to_invoke \in Agents
        /\ decided.d[1].agent_task # "none"
        /\ ~is_complete(IF decided.d[1].declares
                        THEN add_sub_goals(s_progress,
                                           take(decided.d[1].sub_goals, s_maxSubGoals))
                        ELSE s_progress)

\* entry of the loop of orchestrate: the system prompt and the task are in
\* the conversation
InitSup ==
    /\ ExecIdle /\ ParseIdle /\ ReactIdle /\ ValidateIdle /\ ApiIdle
    /\ s_pc = "loop"
    /\ s_maxSteps \in 0..MaxOrchestrationSteps
    /\ s_maxSubGoals \in 1..MaxSubGoals
    /\ s_coordinator \in {"none", "no_contract", "contract"}
    /\ s_step = 0
    /\ s_progress = NewTaskProgress
    /\ s_allSteps = <<>>
    /\ s_agentResults = <<>>
    /\ s_context = {}
    /\ s_passedContext = <<>>
    /\ s_history = <<Msg("system", "supervisor_system_prompt"), Msg("user", "task")>>
    /\ s_response = NoResponse
    /\ s_llmCalls = 0
    /\ s_agentCalls = 0
    /\ s_last = "none"
    /\ s_decision = <<>>
    /\ s_agentResponse = <<>>

\* the decision the step works on, if the LLM call and the parse gave one
DecisionOf(reply) ==
    LET decided == think("supervisor", reply)
    IN  IF decided.kind = "ok" THEN decided.d ELSE <<>>

\* what the invoked agent returned, and the ValidationResult of the
\* coordinator, if one is attached
AgentReturn(agent_response, schema_ok) ==
    <<[kind |-> agent_response.kind, result |-> agent_response.result,
       validation |-> IF s_coordinator = "none" THEN <<>>
                      ELSE <<validate_handoff(s_coordinator, agent_response, schema_ok)>>]>>

OrchestrateStepWith(Replies, Outcomes) ==
    /\ s_pc = "loop"
    /\ in_range(s_step, s_maxSteps)
    /\ \E reply \in Replies :
          /\ s_llmCalls' = s_llmCalls + 1
          /\ s_decision' = DecisionOf(reply)
          /\ IF InvokesAgent(reply)
             THEN /\ s_agentCalls' = s_agentCalls + 1
                  /\ \E agent_response \in Outcomes, schema_ok \in BOOLEAN :
                        /\ s_agentResponse' = AgentReturn(agent_response, schema_ok)
                        /\ SetSup(orchestrate_step(s_maxSteps, s_maxSubGoals, s_coordinator,
                                                   CurrentSup, reply, agent_response,
                                                   schema_ok))
             ELSE /\ s_agentCalls' = s_agentCalls
                  /\ s_agentResponse' = <<>>
                  /\ SetSup(orchestrate_step(s_maxSteps, s_maxSubGoals, s_coordinator,
                                             CurrentSup, reply,
                                             Failure("Failed to reason", <<>>), FALSE))
    /\ UNCHANGED <<s_maxSteps, s_maxSubGoals, s_coordinator, execVars, parseVars, reactVars, validateVars, apiVars>>

OrchestrateStep == OrchestrateStepWith(SupervisorReplies, AgentOutcomes)

OrchestrateMaxSteps ==
    /\ s_pc = "loop"
    /\ ~in_range(s_step, s_maxSteps)
    /\ SetSup(orchestrate_timeout(CurrentSup))
    /\ UNCHANGED <<s_maxSteps, s_maxSubGoals, s_coordinator, s_llmCalls, s_agentCalls,
                   s_decision, s_agentResponse, execVars, parseVars, reactVars, validateVars, apiVars>>

NextSup == OrchestrateStep \/ OrchestrateMaxSteps

SpecSup == InitSup /\ [][NextSup]_vars

(***************************************************************************)
(* orchestrate over runs in which one agent is invoked again and again,    *)
(* with results that differ from one invocation to the next                *)
(***************************************************************************)
MaxHandoffSteps == 3

\* decisions that invoke the registered agent
HandoffDecisions ==
    {SupervisorDecision(sg, a, "agent_task", id, FALSE, "none") :
        sg \in Declarations, a \in Agents, id \in {"none", GoalId(1), GoalId(2)}}

HandoffReplies == {LlmOk(<<DecisionJson(d)>>) : d \in HandoffDecisions}

\* What execute_task_with_context returns: each invocation has its own result
HandoffOutcomes ==
    {Success("result_a", <<>>, "Complete{confidence=1.0}"),
     Success("result_b", <<>>, "Complete{confidence=1.0}"),
     Failure("Failed to reason", <<>>)}

InitHandoff ==
    /\ ExecIdle /\ ParseIdle /\ ReactIdle /\ ValidateIdle /\ ApiIdle
    /\ s_pc = "loop"
    /\ s_maxSteps \in 1..MaxHandoffSteps
    /\ s_maxSubGoals \in 1..MaxSubGoals
    /\ s_coordinator \in {"none", "contract"}
    /\ s_step = 0
    /\ s_progress = NewTaskProgress
    /\ s_allSteps = <<>>
    /\ s_agentResults = <<>>
    /\ s_context = {}
    /\ s_passedContext = <<>>
    /\ s_history = <<Msg("system", "supervisor_system_prompt"), Msg("user", "task")>>
    /\ s_response = NoResponse
    /\ s_llmCalls = 0
    /\ s_agentCalls = 0
    /\ s_last = "none"
    /\ s_decision = <<>>
    /\ s_agentResponse = <<>>

HandoffStep == OrchestrateStepWith(HandoffReplies, HandoffOutcomes)

NextHandoff == HandoffStep \/ OrchestrateMaxSteps

SpecHandoff == InitHandoff /\ [][NextHandoff]_vars

(***************************************************************************)
(* orchestrate over decisions whose sub_goals arrays differ in length and  *)
(* may repeat an id                                                        *)
(***************************************************************************)
\* the arrays an LLM declares: every prefix of the batch, and a repeated id
DeclaredLists ==
    {SubSeq(DeclaredBatch, 1, n) : n \in 0..Len(DeclaredBatch)}
    \cup {<<GoalId(1), GoalId(1)>>}

DeclareDecisions ==
    {SupervisorDecision(sg, "none", "none", "none", TRUE, "decision.final_answer") :
        sg \in {NoSubGoals} \cup {SomeSubGoals(ids) : ids \in DeclaredLists}}
    \cup {SupervisorDecision(sg, a, "agent_task", id, FALSE, "none") :
        sg \in {NoSubGoals} \cup {SomeSubGoals(ids) : ids \in DeclaredLists},
        a \in Agents, id \in {"none", GoalId(1)}}

DeclareReplies == {LlmOk(<<DecisionJson(d)>>) : d \in DeclareDecisions}

InitDeclare ==
    /\ ExecIdle /\ ParseIdle /\ ReactIdle /\ ValidateIdle /\ ApiIdle
    /\ s_pc = "loop"
    /\ s_maxSteps \in 1..MaxOrchestrationSteps
    /\ s_maxSubGoals \in 1..MaxSubGoals
    /\ s_coordinator = "none"
    /\ s_step = 0
    /\ s_progress = NewTaskProgress
    /\ s_allSteps = <<>>
    /\ s_agentResults = <<>>
    /\ s_context = {}
    /\ s_passedContext = <<>>
    /\ s_history = <<Msg("system", "supervisor_system_prompt"), Msg("user", "task")>>
    /\ s_response = NoResponse
    /\ s_llmCalls = 0
    /\ s_agentCalls = 0
    /\ s_last = "none"
    /\ s_decision = <<>>
    /\ s_agentResponse = <<>>

DeclareStep == OrchestrateStepWith(DeclareReplies, AgentOutcomes)

NextDeclare == DeclareStep \/ OrchestrateMaxSteps

SpecDeclare == InitDeclare /\ [][NextDeclare]_vars

(***************************************************************************)
(* validate_handoff and validate as state machines                         *)
(***************************************************************************)
\* a call of coordinator.validate_handoff(name, &response) or of
\* validator.validate(name, &output), with or without something registered
\* under the name
InitValidate ==
    /\ ExecIdle /\ ParseIdle /\ ReactIdle /\ SupIdle /\ ApiIdle
    /\ v_pc = "lookup"
    /\ v_fn \in {"validate_handoff", "validate"}
    /\ v_contract \in {<<>>} \cup {<<c>> : c \in HandoffContracts}
    /\ v_response \in (IF v_fn = "validate_handoff" THEN HandoffResponses
                       ELSE {NoHandoffResponse})
    /\ v_output \in (IF v_fn = "validate" THEN JsonValues ELSE {NotJson})
    /\ v_errors = <<>>
    /\ v_warnings = <<>>
    /\ v_schemaValidation = <<>>
    /\ v_result = <<>>
    /\ v_evaluated = {}

\* `match self.contracts.get(contract_name)`
HandoffLookup ==
    /\ v_pc = "lookup" /\ v_fn = "validate_handoff"
    /\ IF v_contract = <<>>
       THEN /\ v_result' = <<validation_failure(
                                <<ValidationError("contract", "ContractNotFound")>>)>>
            /\ v_pc' = "done"
       ELSE /\ v_pc' = "response"
            /\ UNCHANGED v_result
    /\ UNCHANGED <<v_fn, v_contract, v_response, v_output, v_errors, v_warnings,
                   v_schemaValidation, v_evaluated, execVars, parseVars, reactVars, supVars, apiVars>>

\* `match response`: Failure and Timeout push one error and return
HandoffMatchResponse ==
    /\ v_pc = "response"
    /\ IF v_response.kind = "Success"
       THEN /\ v_pc' = "metadata"
            /\ UNCHANGED <<v_errors, v_result>>
       ELSE /\ v_errors' = v_errors \o response_errors(v_response)
            /\ v_result' = <<validation_failure(v_errors')>>
            /\ v_pc' = "done"
    /\ UNCHANGED <<v_fn, v_contract, v_response, v_output, v_warnings,
                   v_schemaValidation, v_evaluated, execVars, parseVars, reactVars, supVars, apiVars>>

\* `if let Some(meta) = metadata`: the execution time limit and the embedded
\* validation result
HandoffCheckMetadata ==
    /\ v_pc = "metadata"
    /\ IF v_response.metadata # <<>>
       THEN LET meta == v_response.metadata[1]
                max_time == v_contract[1].max_execution_time_ms
            IN  /\ v_warnings' =
                      IF max_time # <<>> /\ meta.execution_time_ms > max_time[1]
                      THEN Append(v_warnings, "Execution time exceeded limit")
                      ELSE v_warnings
                /\ v_errors' =
                      IF meta.validation_result # <<>> /\ ~meta.validation_result[1].valid
                      THEN v_errors \o meta.validation_result[1].errors
                      ELSE v_errors
                /\ v_evaluated' = v_evaluated \cup {"execution_time", "validation_result"}
       ELSE UNCHANGED <<v_warnings, v_errors, v_evaluated>>
    /\ v_pc' = "result"
    /\ UNCHANGED <<v_fn, v_contract, v_response, v_output, v_schemaValidation, v_result,
                   execVars, parseVars, reactVars, supVars, apiVars>>

\* `match serde_json::from_str::<Value>(result_str)`
HandoffCheckResult ==
    /\ v_pc = "result"
    /\ IF v_response.result.json
       THEN LET schema_validation == validate(registered_schema(v_contract),
                                              v_response.result)
            IN  /\ v_schemaValidation' = <<schema_validation>>
                /\ v_errors' = IF ~schema_validation.valid
                               THEN v_errors \o schema_validation.errors ELSE v_errors
                /\ v_warnings' = v_warnings \o schema_validation.warnings
       ELSE /\ v_warnings' =
                  IF expects_structured_data(v_contract[1].schema)
                  THEN Append(v_warnings,
                              "Result is not valid JSON, but schema expects structured data")
                  ELSE v_warnings
            /\ UNCHANGED <<v_errors, v_schemaValidation>>
    /\ v_evaluated' = v_evaluated \cup {"schema"}
    /\ v_pc' = "return"
    /\ UNCHANGED <<v_fn, v_contract, v_response, v_output, v_result,
                   execVars, parseVars, reactVars, supVars, apiVars>>

\* the return at the end of validate_handoff
HandoffReturn ==
    /\ v_pc = "return"
    /\ v_result' = <<finish(v_errors, v_warnings)>>
    /\ v_pc' = "done"
    /\ UNCHANGED <<v_fn, v_contract, v_response, v_output, v_errors, v_warnings,
                   v_schemaValidation, v_evaluated, execVars, parseVars, reactVars, supVars, apiVars>>

\* a call of OutputValidator::validate
ValidateOutput ==
    /\ v_pc = "lookup" /\ v_fn = "validate"
    /\ v_result' = <<validate(registered_schema(v_contract), v_output)>>
    /\ v_pc' = "done"
    /\ UNCHANGED <<v_fn, v_contract, v_response, v_output, v_errors, v_warnings,
                   v_schemaValidation, v_evaluated, execVars, parseVars, reactVars, supVars, apiVars>>

NextValidate ==
    \/ HandoffLookup \/ HandoffMatchResponse \/ HandoffCheckMetadata
    \/ HandoffCheckResult \/ HandoffReturn \/ ValidateOutput

SpecValidate == InitValidate /\ [][NextValidate]_vars

\* every kind of run: a ReAct loop or an orchestration
InitRuns == InitReact \/ InitSup

NextRuns == NextReact \/ NextSup

SpecRuns == InitRuns /\ [][NextRuns]_vars

(***************************************************************************)
(* Claims about decision parsing                                           *)
(***************************************************************************)
\* the three tiers as the claim states them, on a response text
TierOneDecision(text) == from_str(text)
TierTwoDecision(text) ==
    LET i == find_open(text)
        j == rfind_close(text)
    IN  IF i # 0 /\ j >= i THEN from_str(SubSeq(text, i, j)) ELSE <<>>

\* C10: for every response text think yields a decision: by strict parse,
\* else from the substring between the first '{' and the last '}', else the
\* raw text wrapped as the thought; it never panics, and it fails only when
\* the LLM call failed.
C10_ParseNeverFails ==
    p_pc \in {"done", "panicked"} =>
        IF ~p_reply.ok THEN p_result = ThinkErr
        ELSE /\ p_pc = "done"
             /\ p_result.kind = "ok"
             /\ p_result.d[1] =
                    IF TierOneDecision(p_reply.text) # <<>>
                    THEN TierOneDecision(p_reply.text)[1]
                    ELSE IF TierTwoDecision(p_reply.text) # <<>>
                    THEN TierTwoDecision(p_reply.text)[1]
                    ELSE default_decision(p_site, p_reply.text)

(***************************************************************************)
(* Claims about ToolExecutor::execute                                      *)
(***************************************************************************)
ExecEnded == e_pc \in {"done", "panicked"}

\* every failed attempt of the run carried a retry-eligible (non-terminal) error
AllFailuresRetryEligible ==
    /\ ~e_retriedTerminal
    /\ ~IsTerminalClass(e_lastError)
    /\ ~(e_result.returned /\ ~e_result.success /\ ~e_result.failedAfter)

\* C4: a tool that fails retry-eligibly on its first k invocations and then
\* succeeds makes execute return success when max_retries > k (the run's last
\* invocation is the successful one) and a failure whose message contains
\* "failed after" when max_retries <= k (all max_retries invocations failed).
C4_RetryThenSucceed ==
    (ExecEnded /\ AllFailuresRetryEligible) =>
        /\ e_pc = "done"
        /\ e_result.returned
        /\ IF e_lastKind = "ok_success"
           THEN e_result.success
           ELSE e_calls = e_maxRetries /\ ~e_result.success /\ e_result.failedAfter

\* C5: the tool is never invoked again after an attempt that failed with a
\* terminal-class error, whether it came as a failed ToolResult or as Err.
C5_NoRetryAfterTerminal == ~e_retriedTerminal

\* C6: execute always returns a ToolResult, invokes the tool at most
\* max_retries times, and when every attempt failed retryably the result is a
\* failure embedding the attempt count max_retries and the last error.
C6_AlwaysReturnsResult ==
    /\ e_calls <= e_maxRetries
    /\ e_pc # "panicked"
    /\ e_pc = "done" => e_result.returned
    /\ (e_pc = "done" /\ e_lastKind # "ok_success" /\ AllFailuresRetryEligible) =>
           /\ ~e_result.success
           /\ e_result.failedAfter
           /\ e_result.attempts = e_maxRetries
           /\ e_result.error = e_lastError

\* min(5000, 100 * 2^k) over the integers; 100 * 2^k exceeds 5000 from k = 6
\* on, so larger powers need not be computed.
ExactBackoff(k) ==
    IF k >= 6 THEN max_delay
    ELSE IF base_delay * 2^k < max_delay THEN base_delay * 2^k ELSE max_delay

\* C7: the delay waited before retry k (k >= 1) is min(5000, 100 * 2^k) ms.
\* The most recent invocation is retry number e_calls - 1.
C7_BackoffIsCappedExponential ==
    e_delay # NoDelay => e_delay[1] = ExactBackoff(e_calls - 1)

(***************************************************************************)
(* Claims about the ReAct loops                                            *)
(***************************************************************************)
ErrorObservations == {<<"Tool not found">>, <<"Tool failed">>, <<"Tool execution failed">>}

\* C1: a run of run_react_loop or execute_task_with_context with
\* max_iterations = N starts at most N iterations (one LLM call each), has
\* appended at most one AgentStep per iteration started, and the response it
\* returns (Timeout included) carries at most N steps.
C1_AtMostOneStepPerIteration ==
    r_variant \in {"standalone", "specialized"} =>
        /\ Len(r_steps) <= r_llmCalls
        /\ r_llmCalls <= r_maxIterations
        /\ Len(r_response.steps) <= r_maxIterations

C1_TimeoutWithAllSteps ==
    /\ r_variant = "specialized"
    /\ r_maxIterations = MaxIterations
    /\ r_response.kind = "Timeout"
    /\ Len(r_response.steps) = r_maxIterations

\* C9: in each loop variant (standalone, specialized, session) an iteration
\* whose decision names an unregistered tool, or whose tool execution fails,
\* leaves a step with an error observation and the run still in its loop.
C9_ToolErrorsNeverEndRun ==
    r_last \in {"unknown_tool", "tool_failed", "tool_error"} =>
        /\ r_pc = "loop"
        /\ r_steps # <<>>
        /\ r_steps[Len(r_steps)].observation \in ErrorObservations

\* the step taken is an iteration of run_react_loop or execute_task_with_context
\* whose LLM call failed
ReactLlmCallFails ==
    /\ r_variant \in {"standalone", "specialized"}
    /\ r_llmCalls' = r_llmCalls + 1
    /\ r_last' = "llm_error"

\* the step taken is an orchestration step whose LLM call failed
SupLlmCallFails ==
    /\ s_llmCalls' = s_llmCalls + 1
    /\ s_last' = "llm_error"

\* C8: when the LLM call of a decision fails, the run (standalone loop,
\* specialized agent, orchestrate) returns at once Failure with completion
\* status Failed{recoverable=true} and exactly the steps recorded before the
\* call, that step invokes no tool or agent, and a run that has returned makes
\* no LLM call and invokes nothing.
C8_LlmFailureIsImmediateFailure ==
    [][ /\ ReactLlmCallFails =>
            /\ r_pc' = "done"
            /\ r_response'.kind = "Failure"
            /\ r_response'.completion_status = "Failed{recoverable=true}"
            /\ r_response'.steps = r_steps
            /\ r_toolRuns' = r_toolRuns
        /\ SupLlmCallFails =>
            /\ s_pc' = "done"
            /\ s_response'.kind = "Failure"
            /\ s_response'.completion_status = "Failed{recoverable=true}"
            /\ s_response'.steps = s_allSteps
            /\ s_agentCalls' = s_agentCalls
        /\ r_pc = "done" => r_llmCalls' = r_llmCalls /\ r_toolRuns' = r_toolRuns
        /\ s_pc = "done" => s_llmCalls' = s_llmCalls /\ s_agentCalls' = s_agentCalls
      ]_vars

C8_FailureAfterSomeSteps ==
    /\ s_last = "llm_error"
    /\ s_allSteps # <<>>
    /\ s_agentCalls > 0
    /\ s_response.kind = "Failure"
    /\ s_response.steps = s_allSteps

(***************************************************************************)
(* Claims about orchestrate                                                *)
(***************************************************************************)
GoalsWhere(P(_)) == {i \in 1..Len(s_progress.sub_goals) : P(s_progress.sub_goals[i])}
IsDeclared(g) == g.declared
IsCompleted(g) == g.status = "Completed"
IsAnyGoal(g) == TRUE

\* C2 as stated: once there are declared sub-goals and each of them is
\* Completed, the run has returned Success (in the step that completed the
\* last of them, so without another LLM decision call).
C2_DeclaredCompleteReturnsSuccess ==
    (GoalsWhere(IsDeclared) # {} /\ GoalsWhere(IsDeclared) \subseteq GoalsWhere(IsCompleted)) =>
        /\ s_pc = "done"
        /\ s_response.kind = "Success"

\* C2 as amended: once every sub-goal registered in the run's TaskProgress,
\* declared or added on the fly, is Completed, the run has returned Success in
\* the step that completed the last of them, without another LLM decision call
\* and without any is_final decision.
C2_AllRegisteredCompleteReturnsSuccess ==
    (GoalsWhere(IsAnyGoal) # {} /\ GoalsWhere(IsAnyGoal) \subseteq GoalsWhere(IsCompleted)) =>
        /\ s_pc = "done"
        /\ s_response.kind = "Success"
        /\ s_last = "auto_complete"
        /\ s_llmCalls = s_step + 1

C2_TwoGoalsAutoCompleted ==
    /\ s_last = "auto_complete"
    /\ s_response.kind = "Success"
    /\ Len(s_progress.sub_goals) >= 2
    /\ GoalsWhere(IsDeclared) # {}
    /\ GoalsWhere(IsAnyGoal) \subseteq GoalsWhere(IsCompleted)

\* C3: an orchestrate run makes at most max_orchestration_steps LLM decision
\* calls, ends by returning (it never dies in a panic) one of Success, Failure
\* or Timeout, and returns Timeout exactly when all steps were consumed.
C3_BoundedCallsThenOneOutcome ==
    /\ s_llmCalls <= s_maxSteps
    /\ s_pc # "panicked"
    /\ s_pc = "done" =>
            /\ s_response.kind \in {"Success", "Failure", "Timeout"}
            /\ s_response.kind = "Timeout" <=> s_step = s_maxSteps

(***************************************************************************)
(* Claims about the handoff gate of orchestrate                            *)
(***************************************************************************)
\* this step of orchestrate ran an agent
AgentInvoked == s_agentCalls' = s_agentCalls + 1

\* the sub-goal id the invocation of this step is tracked under
TrackedId ==
    IF s_decision'[1].sub_goal_id # "none" THEN s_decision'[1].sub_goal_id
    ELSE "goal_" \o ToString(s_step)

\* the coordinator was asked and its ValidationResult is not valid
ValidationFailed ==
    /\ AgentInvoked
    /\ s_agentResponse'[1].validation # <<>>
    /\ ~s_agentResponse'[1].validation[1].valid

\* C11: with a coordinator attached and no contract "<agent>_handoff"
\* registered, a Success response of the invoked agent marks the sub-goal
\* Completed with that result and stores the result in the shared context
\* under "<agent>_output", as when no coordinator is attached.
C11_MissingContractSkipsGate ==
    [][(AgentInvoked /\ s_coordinator = "no_contract"
        /\ s_agentResponse'[1].kind = "Success")
       => /\ \E i \in 1..Len(s_progress'.sub_goals) :
                /\ s_progress'.sub_goals[i].id = TrackedId
                /\ s_progress'.sub_goals[i].status = "Completed"
                /\ s_progress'.sub_goals[i].result = <<s_agentResponse'[1].result>>
          /\ [key |-> s_decision'[1].agent_to_invoke \o "_output",
              value |-> s_agentResponse'[1].result] \in s_context'
          /\ s_agentResults' = Append(s_agentResults, <<s_decision'[1].agent_to_invoke,
                                                        s_agentResponse'[1].result>>)]_vars

\* the error messages of the failing ValidationResult, joined
ValidationErrors == s_agentResponse'[1].validation[1].error

\* C12: when the handoff validation of an invoked agent's response fails,
\* orchestrate does not return in that step: it marks the tracked sub-goal
\* Failed with the validation error messages, appends exactly one step whose
\* observation starts with "VALIDATION FAILED", and goes on to the next step.
C12_ValidationFailureContinues ==
    [][ValidationFailed
       => /\ s_pc' = "loop"
          /\ s_response' = NoResponse
          /\ s_step' = s_step + 1
          /\ \E i \in 1..Len(s_progress'.sub_goals) :
                /\ s_progress'.sub_goals[i].id = TrackedId
                /\ s_progress'.sub_goals[i].status = "Failed"
                /\ s_progress'.sub_goals[i].result
                      = <<"Validation failed: " \o ValidationErrors>>
          /\ Len(s_allSteps') = Len(s_allSteps) + 1
          /\ SubSeq(s_allSteps', 1, Len(s_allSteps)) = s_allSteps
          /\ s_allSteps'[Len(s_allSteps')].observation
                = <<"VALIDATION FAILED: " \o ValidationErrors>>]_vars

\* a registered contract rejected a Success result while steps remain
C12_RejectedWithStepsLeft ==
    /\ s_last = "validation_failed"
    /\ s_coordinator = "contract"
    /\ s_agentResponse # <<>>
    /\ s_agentResponse[1].kind = "Success"
    /\ s_pc = "loop"
    /\ s_step < s_maxSteps
    /\ s_allSteps[Len(s_allSteps)].observation = <<"VALIDATION FAILED: SchemaViolation">>
    /\ \E i \in 1..Len(s_progress.sub_goals) : s_progress.sub_goals[i].status = "Failed"

\* C13: a failed validation leaves agent_results_context and agent_results as
\* they were, so the rejected result is never handed to a later invocation
\* under "<agent>_output".
C13_RejectedResultNotShared ==
    [][ValidationFailed
       => /\ s_context' = s_context
          /\ s_agentResults' = s_agentResults]_vars

\* after a rejected Success result, a second invocation ran without context
C13_NextInvocationWithoutContext ==
    /\ s_coordinator = "contract"
    /\ s_agentCalls = 2
    /\ Len(s_allSteps) = 2
    /\ s_allSteps[1].observation = <<"VALIDATION FAILED: SchemaViolation">>
    /\ s_passedContext = <<>>
    /\ s_context = {}

\* the context object that holds every accepted result so far, each under the
\* key "<agent>_output"
EveryEarlierSuccess ==
    {[key |-> s_agentResults[i][1] \o "_output", value |-> s_agentResults[i][2]] :
        i \in 1..Len(s_agentResults)}

\* C14: at each agent invocation, the context passed holds the result of
\* every earlier invocation that returned Success, under "<agent>_output"
\* (and no context is passed when there is none), also when the same agent
\* succeeded more than once before.
C14_ContextHoldsEveryEarlierSuccess ==
    [][AgentInvoked
       => IF s_agentResults = <<>> THEN s_passedContext' = <<>>
          ELSE /\ s_passedContext' # <<>>
               /\ EveryEarlierSuccess \subseteq s_passedContext'[1]]_vars

(***************************************************************************)
(* Claims about the sub-goals of orchestrate                               *)
(***************************************************************************)
\* this step of orchestrate works on a decision with a non-null sub_goals
Declaring ==
    /\ s_llmCalls' = s_llmCalls + 1
    /\ s_decision' # <<>>
    /\ s_decision'[1].declares

\* the sub-goals this step registered, in the order of registration
NewGoals ==
    SubSeq(s_progress'.sub_goals, Len(s_progress.sub_goals) + 1, Len(s_progress'.sub_goals))

IdsOf(goals) == [i \in 1..Len(goals) |-> goals[i].id]

MinOf(a, b) == IF a < b THEN a ELSE b

C16_SubGoalIdsAreUnique ==
    \A i, j \in 1..Len(s_progress.sub_goals) :
        s_progress.sub_goals[i].id = s_progress.sub_goals[j].id => i = j

\* this step of orchestrate works on a decision that names an agent and a
\* task and reaches the invocation
Invoking ==
    /\ s_llmCalls' = s_llmCalls + 1
    /\ s_decision' # <<>>
    /\ ~s_decision'[1].is_final
    /\ s_decision'[1].agent_to_invoke # "none"
    /\ s_decision'[1].agent_task # "none"
    /\ s_last' # "auto_complete_before"

\* the ids registered when the invocation looks its sub-goal up: those of the
\* earlier steps and those kept from this decision's sub_goals
IdsBeforeInvocation ==
    IdsOf(s_progress.sub_goals)
    \o SubSeq(s_decision'[1].sub_goals, 1,
              MinOf(Len(s_decision'[1].sub_goals), s_maxSubGoals))

IsRegistered(id, ids) == \E i \in 1..Len(ids) : ids[i] = id

\* the first sub-goal with the given id
FirstWithId(goals, id) ==
    goals[CHOOSE i \in 1..Len(goals) :
             /\ goals[i].id = id
             /\ \A j \in 1..(i - 1) : goals[j].id # id]

\* C17 as stated: an invocation that references a sub_goal_id matching no
\* registered sub-goal registers a new sub-goal with the id goal_<step>.
C17_UnknownIdGetsStepId ==
    [][(Invoking /\ s_decision'[1].sub_goal_id # "none"
        /\ ~IsRegistered(s_decision'[1].sub_goal_id, IdsBeforeInvocation))
       => IdsOf(s_progress'.sub_goals)
             = Append(IdsBeforeInvocation, "goal_" \o ToString(s_step))]_vars

\* C17, amended: an invocation is tracked under the decision's sub_goal_id,
\* and under goal_<step> when the decision has none; if no registered
\* sub-goal has that id, one new sub-goal with that id is registered, and the
\* status of the invocation is recorded in the first sub-goal with that id.
C17_TrackedUnderOwnIdOrStepId ==
    [][Invoking
       => /\ IdsOf(s_progress'.sub_goals)
                = IF IsRegistered(TrackedId, IdsBeforeInvocation)
                  THEN IdsBeforeInvocation
                  ELSE Append(IdsBeforeInvocation, TrackedId)
          /\ LET g == FirstWithId(s_progress'.sub_goals, TrackedId)
             IN  /\ g.assigned_agent = s_decision'[1].agent_to_invoke
                 /\ g.status
                       = IF ~AgentInvoked THEN "InProgress"
                         ELSE IF ValidationFailed THEN "Failed"
                         ELSE IF s_agentResponse'[1].kind = "Success" THEN "Completed"
                         ELSE "Failed"]_vars

\* at step 0 an invocation referenced the undeclared goal_2 and failed: the
\* one sub-goal of the run is goal_2, Failed
C17_UndeclaredIdRegisteredAsIs ==
    /\ s_step = 1
    /\ s_decision # <<>>
    /\ s_decision[1].sub_goal_id = "goal_2"
    /\ ~s_decision[1].declares
    /\ s_last = "agent_failure"
    /\ Len(s_progress.sub_goals) = 1
    /\ s_progress.sub_goals[1].id = "goal_2"
    /\ s_progress.sub_goals[1].status = "Failed"

(***************************************************************************)
(* Claims about return_tool_output                                         *)
(***************************************************************************)
\* the steps of the run that are successful tool calls
SuccessfulToolCalls ==
    {i \in 1..Len(r_steps) :
        /\ r_steps[i].action \in Registry
        /\ \E run \in ToolRuns : run.success /\ r_steps[i].observation = <<run.output>>}

\* C18: with return_tool_output = true, a SpecializedAgent run that ends on
\* an is_final decision returns the raw output of the most recent successful
\* tool call of the run, whatever failed calls came after it, and not the
\* LLM's final_answer; with no successful tool call it returns the LLM's
\* final_answer (a fixed text if the decision has none).
C18_ReturnsLastSuccessfulToolOutput ==
    (r_variant = "specialized" /\ r_returnToolOutput /\ r_last = "final")
    => /\ r_pc = "done"
       /\ r_decision[1].is_final
       /\ r_response.kind = "Success"
       /\ r_response.result
             = IF SuccessfulToolCalls # {}
               THEN r_steps[SetMax(SuccessfulToolCalls)].observation[1]
               ELSE IF r_decision[1].final_answer # "none"
               THEN r_decision[1].final_answer
               ELSE "Task completed without tool output"

\* a successful tool call, then a failed one, then a final decision with an
\* answer of its own: the run returns the tool's output
C18_FailedCallAfterSuccess ==
    /\ r_variant = "specialized" /\ r_returnToolOutput /\ r_last = "final"
    /\ Len(r_steps) = 3
    /\ r_steps[1].observation = <<"out_a">>
    /\ r_steps[2].observation = <<"Tool failed">>
    /\ r_decision[1].final_answer = "decision.final_answer"
    /\ r_response.result = "out_a"

(***************************************************************************)
(* Claims about validate_handoff and validate                              *)
(***************************************************************************)
\* C19: for a registered contract, validate_handoff on a Failure or Timeout
\* response returns valid = false with exactly one error, on the field
\* "response", and has not looked at the execution time, at an embedded
\* validation result or at the schema.
C19_NonSuccessFailsAtOnce ==
    (v_fn = "validate_handoff" /\ v_contract # <<>>
     /\ v_response.kind \in {"Failure", "Timeout"} /\ v_pc \notin {"lookup", "response"})
    => /\ v_pc = "done"
       /\ v_result # <<>>
       /\ ~v_result[1].valid
       /\ Len(v_result[1].errors) = 1
       /\ v_result[1].errors[1].field = "response"
       /\ v_result[1].warnings = <<>>
       /\ v_evaluated = {}
       /\ v_schemaValidation = <<>>

\* a Timeout response was validated against a contract with a time limit
\* and a schema with a required field
C19_TimeoutAgainstFullContract ==
    /\ v_fn = "validate_handoff" /\ v_pc = "done"
    /\ v_contract # <<>>
    /\ v_contract[1].max_execution_time_ms # <<>>
    /\ v_contract[1].schema.required_fields # <<>>
    /\ v_response.kind = "Timeout"
    /\ v_result = <<validation_failure(<<ValidationError("response", "AgentTimeout")>>)>>

\* C20: every ValidationResult returned by validate_handoff or by
\* OutputValidator::validate is valid exactly if its errors are empty;
\* warnings never make it invalid.
C20_ValidIffNoErrors ==
    /\ v_result # <<>> => (v_result[1].valid <=> v_result[1].errors = <<>>)
    /\ v_schemaValidation # <<>>
          => (v_schemaValidation[1].valid <=> v_schemaValidation[1].errors = <<>>)
    /\ (v_pc = "done" /\ v_errors = <<>> /\ v_warnings # <<>>) => v_result[1].valid

\* a Success whose result is not JSON and whose run took longer than the
\* contract allows is valid, with both warnings
C20_ValidWithTwoWarnings ==
    /\ v_fn = "validate_handoff" /\ v_pc = "done"
    /\ ~v_response.result.json
    /\ v_result # <<>>
    /\ v_result[1].valid
    /\ v_result[1].errors = <<>>
    /\ v_result[1].warnings
          = <<"Execution time exceeded limit",
              "Result is not valid JSON, but schema expects structured data">>

\* the results of OutputValidator::validate in the state: the one returned
\* to its caller, or the one returned to validate_handoff
SchemaValidations ==
    IF v_fn = "validate" /\ v_contract # <<>> /\ v_result # <<>>
    THEN {[output |-> v_output, result |-> v_result[1]]}
    ELSE IF v_schemaValidation # <<>>
    THEN {[output |-> v_response.result, result |-> v_schemaValidation[1]]}
    ELSE {}

ErrorsOn(result, field) ==
    {i \in 1..Len(result.errors) : result.errors[i].field = field}

\* C21: for a JSON result, schema validation reports exactly one error for
\* each required field that is absent, a MissingRequired one, also when a
\* validation rule targets that field, and no MissingRequired error for a
\* required field that is present.
C21_OneErrorPerMissingRequired ==
    \A sv \in SchemaValidations :
        LET required_fields == v_contract[1].schema.required_fields
        IN  \A k \in 1..Len(required_fields) :
                LET field == required_fields[k]
                    on_field == ErrorsOn(sv.result, field)
                IN  IF sv.output.fields[field].present
                    THEN \A i \in on_field :
                            sv.result.errors[i].error_type # "MissingRequired"
                    ELSE /\ Cardinality(on_field) = 1
                         /\ \A i \in on_field :
                               sv.result.errors[i].error_type = "MissingRequired"
                         /\ ~sv.result.valid

\* required_fields [data, row_count], a Range rule on row_count, and a JSON
\* object with data only: one error, for row_count
C21_SecondRequiredFieldMissing ==
    /\ v_fn = "validate" /\ v_pc = "done"
    /\ v_contract # <<>>
    /\ v_contract[1].schema.required_fields = <<"data", "row_count">>
    /\ \E i \in 1..Len(v_contract[1].schema.validation_rules) :
          v_contract[1].schema.validation_rules[i].field = "row_count"
    /\ v_output.fields["data"].present
    /\ ~v_output.fields["row_count"].present
    /\ ~v_result[1].valid
    /\ v_result[1].errors = <<ValidationError("row_count", "MissingRequired")>>

NumberLe(a, b) == (~a.wide /\ b.wide) \/ (a.wide = b.wide /\ a.n <= b.n)

\* C23: a Range rule "min..max" gives no error exactly for the numeric
\* values v with min <= v <= max, and exactly one Range error for every other
\* numeric value.
C23_RangeIsInclusive ==
    \A sv \in SchemaValidations :
        LET rules == v_contract[1].schema.validation_rules
        IN  \A k \in 1..Len(rules) :
                LET value == sv.output.fields[rules[k].field]
                    v == Number(value.wide, value.size)
                    range_errors == {i \in ErrorsOn(sv.result, rules[k].field) :
                                        sv.result.errors[i].error_type = "Range"}
                IN  (rules[k].rule_type = "Range" /\ value.present /\ value.type = "number")
                    => Cardinality(range_errors)
                          = IF NumberLe(rules[k].min, v) /\ NumberLe(v, rules[k].max)
                            THEN 0 ELSE 1

(***************************************************************************)
(* Claims about sessions, batches and the agent builder                    *)
(***************************************************************************)
\* what storage.load gives for the live session's id when it succeeds
StoredHistory == load(t_kind, t_storage, t_sessionId[1])

\* C24: once send_message has returned Ok, the history stored under the
\* session id is the session's conversation history, and a session made by
\* AgentSession::new with that id on that storage starts from the stored
\* history.
C24_StoredHistoryIsSessionHistory ==
    (t_sessionId # <<>> /\ (t_result = "Ok" \/ t_fresh)) => r_history = StoredHistory

\* C25: with a concurrency limit of at least one, process_prompts and
\* process_with_context never have more chat requests in flight than the
\* limit, and what they return holds exactly one result for every input
\* prompt.
C25_BatchIsBounded ==
    q_concurrency >= 1 =>
        /\ Cardinality(q_inFlight) <= q_concurrency
        /\ q_peak <= q_concurrency
        /\ q_pc = "returned" =>
              /\ Len(q_results) = q_prompts
              /\ \A prompt \in 1..q_prompts :
                    Cardinality({i \in 1..Len(q_results) : q_results[i].prompt = prompt}) = 1

\* three prompts went through a limit of two, and two were in flight at once
C25_ThreePromptsTwoAtATime ==
    /\ q_pc = "returned" /\ q_prompts = 3 /\ q_concurrency = 2 /\ q_peak = 2
    /\ q_results[1].prompt = 2

\* C26: the configuration AgentBuilder::build returns has return_tool_output
\* set whenever a response_schema was set on the builder, whatever was
\* passed to return_tool_output.
C26_SchemaEnablesReturnToolOutput ==
    (a_pc = "built" /\ a_responseSchema # <<>>) => a_config[1].return_tool_output

IsFailed(g) == g.status = "Failed"

\* C27: orchestrate returns the auto-completion Success (the one is_complete
\* triggers, not an is_final decision) only when every registered sub-goal is
\* Completed.
C27_AutoCompleteOnlyWhenAllCompleted ==
    (s_pc = "done" /\ s_last = "auto_complete") =>
        GoalsWhere(IsAnyGoal) \subseteq GoalsWhere(IsCompleted)

\* C28: at every point of a run completed_count is the number of sub-goals
\* whose status is Completed and failed_count the number whose status is
\* Failed.
C28_CountersMatchStatuses ==
    /\ s_progress.completed_count = Cardinality(GoalsWhere(IsCompleted))
    /\ s_progress.failed_count = Cardinality(GoalsWhere(IsFailed))

\* C30: sub-goal declarations are honoured once per run, so the number of
\* declared sub-goals registered never exceeds max_sub_goals.
C30_DeclaredWithinLimit ==
    Cardinality(GoalsWhere(IsDeclared)) <= s_maxSubGoals

\* C29: a standalone or specialized ReAct run in which no tool was executed
\* returns Success only on a decision with is_final = true (so never when
\* every decision had neither an action nor is_final).
C29_SuccessWithoutToolsNeedsFinal ==
    (/\ r_variant \in {"standalone", "specialized"}
     /\ r_pc = "done"
     /\ r_response.kind = "Success"
     /\ r_toolRuns = 0)
        => (r_decision # <<>> /\ r_decision[1].is_final)

(***************************************************************************)
(* Claims about what a step leaves behind                                  *)
(***************************************************************************)
IsInProgress(g) == g.status = "InProgress"

\* C31: when an orchestration step starts (and when the run has returned) no
\* sub-goal is InProgress: the step that marked it ended with it Completed or
\* Failed, also when the agent named is not registered.
C31_NoSubGoalLeftInProgress ==
    s_pc \in {"loop", "done"} => GoalsWhere(IsInProgress) = {}

\* this step is an iteration of the standalone or specialized loop whose
\* decision has neither an action nor is_final
NoActionNotFinal ==
    /\ r_variant \in {"standalone", "specialized"}
    /\ r_llmCalls' = r_llmCalls + 1
    /\ r_decision' # <<>>
    /\ ~r_decision'[1].is_final
    /\ r_decision'[1].action = "none"

\* the step recorded "no progress" and went on to the next iteration
RecordedNoProgress ==
    /\ r_pc' = "loop"
    /\ r_iteration' = r_iteration + 1
    /\ Len(r_steps') = Len(r_steps) + 1
    /\ r_steps'[Len(r_steps')].observation = <<"No action specified and no prior progress">>

\* the text of the decision's thought
ThoughtText(d) == IF d.thought = "empty" THEN "" ELSE "decision.thought"

\* C32 as stated: a decision with neither an action nor is_final ends the run
\* with Success whose answer is the current thought if an earlier step has an
\* observation, and else records a no-progress step and continues.
C32_ImplicitAnswerIsTheThought ==
    [][NoActionNotFinal =>
          IF AnyObservation(r_steps)
          THEN /\ r_pc' = "done"
               /\ r_response'.kind = "Success"
               /\ r_response'.result = ThoughtText(r_decision'[1])
          ELSE RecordedNoProgress]_vars

\* C32 as amended: the answer of the implicit completion is the thought only
\* if the thought is not empty and return_tool_output is off; with
\* return_tool_output on it is the last successful tool output, and in the
\* cases left the observation of the most recent step.
C32_ImplicitAnswerFallsBack ==
    [][NoActionNotFinal =>
          IF AnyObservation(r_steps)
          THEN /\ r_pc' = "done"
               /\ r_response'.kind = "Success"
               /\ r_response'.result =
                     IF r_variant = "specialized" /\ r_returnToolOutput /\ r_lastToolOutput # <<>>
                     THEN r_lastToolOutput[1]
                     ELSE IF (r_variant = "specialized" /\ r_returnToolOutput)
                             \/ r_decision'[1].thought = "empty"
                     THEN r_steps[Len(r_steps)].observation[1]
                     ELSE "decision.thought"
          ELSE RecordedNoProgress]_vars

\* an implicit completion on an empty thought answered with the output of
\* the tool run before it
C32_EmptyThoughtAnsweredByObservation ==
    /\ r_last = "implicit_final"
    /\ r_variant = "standalone"
    /\ r_decision[1].thought = "empty"
    /\ r_toolRuns = 1
    /\ r_response.result = "out_a"

\* C33: every iteration that is followed by another one leaves, as the last
\* message of the conversation the next LLM call gets, one that states the
\* number of iterations remaining, as a warning when 2 or fewer remain.
C33_NextPromptCarriesRemaining ==
    [][(/\ r_variant \in {"standalone", "specialized"}
        /\ r_llmCalls' = r_llmCalls + 1
        /\ r_pc' = "loop"
        /\ in_range(r_iteration', r_maxIterations))
          => LET prompt == r_history'[Len(r_history')]
                 remaining == r_maxIterations - r_iteration - 1
             IN  /\ prompt.hint = <<remaining>>
                 /\ prompt.warning = (remaining <= 2)]_vars

(***************************************************************************)
(* Claims about a session's turns                                          *)
(***************************************************************************)
\* C34: when send_message has returned an error, the conversation history
\* in memory is what it was when send_message was called.
C34_FailedTurnLeavesHistoryAsItWas ==
    t_result = "Err" => r_history = t_historyBefore

\* C35: when send_message has returned a completed response, the last message
\* of the conversation history is the assistant's, and holds the answer
\* returned.
C35_HistoryEndsWithTheAnswer ==
    (t_result = "Ok" /\ r_response.completed) =>
        LET last == r_history[Len(r_history)]
        IN  /\ last.role = "assistant"
            /\ last.content = r_response.result

\* C36: what the batch returns is in input order: the i-th result is the one
\* of the i-th prompt, whatever the limit and the order of completion.
C36_ResultsInInputOrder ==
    (q_pc = "returned" /\ q_concurrency >= 1) =>
        \A i \in 1..Len(q_results) : q_results[i].prompt = i

(***************************************************************************)
(* Claims about heartbeats, Reset and the tasks a Reset leaves behind      *)
(***************************************************************************)

CurrentTask(t) == m_tasks[t][Len(m_tasks[t])]

AgentWentSilent ==
    /\ m_router.alive
    /\ m_monitor.alive
    /\ m_monitor.heartbeats["Agent"] # <<>>
    /\ \A i \in 1..Len(m_tasks["Agent"]) : IsStopped(m_tasks["Agent"][i])

\* C37: once the Agent actor, having sent a heartbeat, has stopped and so
\* sends no more, the monitor eventually requests Reset(Agent) from the
\* router (unless the system is shut down first), whatever the other actors
\* and the router keep sending.
C37_SilentActorIsEventuallyReset ==
    AgentWentSilent ~> (m_resetSent["Agent"] \/ ~m_router.alive \/ ~m_monitor.alive)

\* the monitor adds Reset(t) to the router's inbox in this step
ResetRequested(t) ==
    /\ Len(m_routerInbox') > Len(m_routerInbox)
    /\ \E i \in (Len(m_routerInbox) + 1)..Len(m_routerInbox') : m_routerInbox'[i] = Reset(t)

\* C38: the monitor requests Reset for an actor type only when the task of
\* that type the router holds has stopped running: an actor that is idle or
\* inside a handler is not reset.
C38_ResetOnlyForStoppedActor ==
    [][\A t \in ActorTypes :
          ResetRequested(t) => Len(m_tasks[t]) > 0 /\ IsStopped(CurrentTask(t))]_vars

HasOrphan(t) == \E i \in 1..Len(m_tasks[t]) : IsRunning(m_tasks[t][i]) /\ ~m_tasks[t][i].connected

\* C39: a task whose handle the router replaced on Reset or dropped on
\* Shutdown eventually ends, for each of the actor types, so that no task
\* but the handle's stays alive.
C39_OrphanedTaskEventuallyEnds ==
    \A t \in ActorTypes : HasOrphan(t) ~> ~HasOrphan(t)

====
